---------------------------- MODULE Spec2Model ----------------------------
(***************************************************************************)
(* fixup-env: schema normalisation (loadSchema), env-file overlay          *)
(* (parseEnvFiles), per-value type validation (validateEnvValue,           *)
(* validatePattern) and the validation orchestrator (validateEnv).         *)
(*                                                                         *)
(* JavaScript objects (Record<string, T>) are sequences of <<key, value>>  *)
(* pairs with distinct keys, in property insertion order.  An optional     *)
(* property is a sequence of length 0 (undefined) or 1.  A string is a     *)
(* TLA+ string; StringChars gives its characters, which the parsers and    *)
(* matchers read.                                                          *)
(***************************************************************************)
EXTENDS Integers, Sequences, FiniteSets, TLC

VARIABLES
    pc,            \* position of the running operation
    value,         \* validateEnvValue / validatePattern: the raw value
    keyDef,        \* validateEnvValue / validatePattern: the SchemaKey
    valueResult,   \* result of validateEnvValue
    patternResult, \* result of validatePattern
    env,           \* validateEnv: the mapping (merged environment)
    schema,        \* validateEnv: Schema.keys
    options,       \* validateEnv: {strict, failOnWarn}
    result,        \* validateEnv: the ValidationResult
    disk,          \* parseEnvFiles: the env files on disk, by resolved path
    envPaths,      \* parseEnvFiles: the paths given
    parsed,        \* parseEnvFiles: {files, merged} or a thrown error
    schemaFile,    \* loadSchema: the schema file on disk
    loaded,        \* loadSchema: the Schema or a thrown error
    cli,           \* check command: the flags --json, --ci, --strict
    gitignore,     \* check command: the state of the .gitignore file
    printed,       \* check command: what was written to the terminal
    exitCode,      \* check command: the process exit code, None while running
    data,          \* redactSecrets: the value given as obj
    redacted,      \* redactSecrets: the value returned
    written        \* generateExampleFile: the file written, None before

vars == <<pc, value, keyDef, valueResult, patternResult, env, schema,
          options, result, disk, envPaths, parsed, schemaFile, loaded,
          cli, gitignore, printed, exitCode, data, redacted, written>>

-----------------------------------------------------------------------------
(* Optional properties and sequences *)

None == <<>>

Some(x) == <<x>>

IsSet(o) == Len(o) = 1

\* truthiness of an optional boolean property (undefined and false are falsy)
TruthyFlag(o) == IsSet(o) /\ o[1] = TRUE

\* truthiness of an optional string property (undefined and "" are falsy)
TruthyString(o) == IsSet(o) /\ o[1] # ""

Null == [null |-> TRUE]

Range(s) == {s[i] : i \in 1..Len(s)}

\* all sequences over S without repetition, of length at most n
RECURSIVE DistinctSeqs(_, _)
DistinctSeqs(S, n) ==
    IF n = 0 THEN {<<>>}
    ELSE LET shorter == DistinctSeqs(S, n - 1)
         IN  shorter \cup
             UNION {{Append(s, x) : x \in S \ Range(s)} : s \in shorter}

-----------------------------------------------------------------------------
(* Strings *)

StringChars ==
       "" :> <<>> @@
       " " :> <<" ">> @@
       "on" :> <<"o", "n">> @@
       "ON" :> <<"O", "N">> @@
       "off" :> <<"o", "f", "f">> @@
       "staging" :> <<"s", "t", "a", "g", "i", "n", "g">> @@
       "abc" :> <<"a", "b", "c">> @@
       "true" :> <<"t", "r", "u", "e">> @@
       "TRUE" :> <<"T", "R", "U", "E">> @@
       "Yes" :> <<"Y", "e", "s">> @@
       "maybe" :> <<"m", "a", "y", "b", "e">> @@
       "0" :> <<"0">> @@
       "1" :> <<"1">> @@
       "80" :> <<"8", "0">> @@
       " 80" :> <<" ", "8", "0">> @@
       "80.0" :> <<"8", "0", ".", "0">> @@
       "3.5" :> <<"3", ".", "5">> @@
       "-1" :> <<"-", "1">> @@
       "65535" :> <<"6", "5", "5", "3", "5">> @@
       "65536" :> <<"6", "5", "5", "3", "6">> @@
       "99999" :> <<"9", "9", "9", "9", "9">> @@
       "1e3" :> <<"1", "e", "3">> @@
       "0x50" :> <<"0", "x", "5", "0">> @@
       "Infinity" :> <<"I", "n", "f", "i", "n", "i", "t", "y">> @@
       "-Infinity" :> <<"-", "I", "n", "f", "i", "n", "i", "t", "y">> @@
       "NaN" :> <<"N", "a", "N">> @@
       "https://a.io" :> <<"h", "t", "t", "p", "s", ":", "/", "/", "a", ".", "i", "o">> @@
       "http://" :> <<"h", "t", "t", "p", ":", "/", "/">> @@
       "a.io" :> <<"a", ".", "i", "o">> @@
       "mailto:a@b.co" :> <<"m", "a", "i", "l", "t", "o", ":", "a", "@", "b", ".", "c", "o">> @@
       "a@b.co" :> <<"a", "@", "b", ".", "c", "o">> @@
       "a@b" :> <<"a", "@", "b">> @@
       "a b@c.d" :> <<"a", " ", "b", "@", "c", ".", "d">> @@
       "false" :> <<"f", "a", "l", "s", "e">> @@
       "no" :> <<"n", "o">> @@
       "yes" :> <<"y", "e", "s">> @@
       "development" :> <<"d", "e", "v", "e", "l", "o", "p", "m", "e", "n", "t">> @@
       "test" :> <<"t", "e", "s", "t">> @@
       "production" :> <<"p", "r", "o", "d", "u", "c", "t", "i", "o", "n">>

Chars(s) == StringChars[s]

UpperToLower ==
    "A" :> "a" @@ "B" :> "b" @@ "C" :> "c" @@ "D" :> "d" @@ "E" :> "e" @@
    "F" :> "f" @@ "G" :> "g" @@ "H" :> "h" @@ "I" :> "i" @@ "J" :> "j" @@
    "K" :> "k" @@ "L" :> "l" @@ "M" :> "m" @@ "N" :> "n" @@ "O" :> "o" @@
    "P" :> "p" @@ "Q" :> "q" @@ "R" :> "r" @@ "S" :> "s" @@ "T" :> "t" @@
    "U" :> "u" @@ "V" :> "v" @@ "W" :> "w" @@ "X" :> "x" @@ "Y" :> "y" @@
    "Z" :> "z"

LowerLetters == {UpperToLower[c] : c \in DOMAIN UpperToLower}

Letters == LowerLetters \cup DOMAIN UpperToLower

DigitValue ==
    "0" :> 0 @@ "1" :> 1 @@ "2" :> 2 @@ "3" :> 3 @@ "4" :> 4 @@
    "5" :> 5 @@ "6" :> 6 @@ "7" :> 7 @@ "8" :> 8 @@ "9" :> 9

Digits == DOMAIN DigitValue

WhiteSpace == {" "}

\* String.prototype.toLowerCase, on the characters
toLowerCase(cs) ==
    [i \in 1..Len(cs) |-> IF cs[i] \in DOMAIN UpperToLower
                          THEN UpperToLower[cs[i]] ELSE cs[i]]

\* the truthiness of a string: the empty string is the one falsy string
TruthyValue(v) == Len(Chars(v)) > 0


-----------------------------------------------------------------------------
(* Numbers: Number(value), isNaN, Number.isInteger, comparison, `${num}`.    *)
(* A number is NaN, an infinity (num is its sign) or the rational num/den,   *)
(* den a power of ten.                                                       *)

NaN == [kind |-> "NaN", num |-> 0, den |-> 1]

Infinite(sign) == [kind |-> "Infinity", num |-> sign, den |-> 1]

Finite(n, d) == [kind |-> "finite", num |-> n, den |-> d]

RECURSIVE TrimLeft(_)
TrimLeft(cs) ==
    IF cs # <<>> /\ Head(cs) \in WhiteSpace THEN TrimLeft(Tail(cs)) ELSE cs

RECURSIVE TrimRight(_)
TrimRight(cs) ==
    IF cs # <<>> /\ cs[Len(cs)] \in WhiteSpace
    THEN TrimRight(SubSeq(cs, 1, Len(cs) - 1)) ELSE cs

Trim(cs) == TrimRight(TrimLeft(cs))

RECURSIVE DigitsToNat(_)
DigitsToNat(ds) ==
    IF ds = <<>> THEN 0
    ELSE 10 * DigitsToNat(SubSeq(ds, 1, Len(ds) - 1)) + DigitValue[ds[Len(ds)]]

RECURSIVE PowerOfTen(_)
PowerOfTen(k) == IF k = 0 THEN 1 ELSE 10 * PowerOfTen(k - 1)

\* StrDecimalLiteral without exponent: digits, digits "." digits*, "." digits
IsDecimalLiteral(cs) ==
    /\ \A i \in 1..Len(cs) : cs[i] \in Digits \cup {"."}
    /\ Cardinality({i \in 1..Len(cs) : cs[i] = "."}) <= 1
    /\ \E i \in 1..Len(cs) : cs[i] \in Digits

DecimalValue(cs) ==
    LET dots == {i \in 1..Len(cs) : cs[i] = "."}
        p    == IF dots = {} THEN Len(cs) + 1 ELSE CHOOSE i \in dots : TRUE
        ip   == SubSeq(cs, 1, p - 1)
        fp   == SubSeq(cs, p + 1, Len(cs))
        den  == PowerOfTen(Len(fp))
    IN  Finite(DigitsToNat(ip) * den + DigitsToNat(fp), den)

\* the position of the exponent indicator, 0 when there is none
ExponentAt(cs) ==
    LET at == {i \in 1..Len(cs) : cs[i] \in {"e", "E"}}
    IN  IF at = {} THEN 0 ELSE CHOOSE i \in at : \A j \in at : i <= j

\* StrUnsignedDecimalLiteral with an ExponentPart: mantissa e [+-] digits
IsExponentLiteral(cs) ==
    LET p    == ExponentAt(cs)
        rest == SubSeq(cs, p + 1, Len(cs))
        ds   == IF rest # <<>> /\ Head(rest) \in {"+", "-"}
                THEN Tail(rest) ELSE rest
    IN  /\ p > 0
        /\ IsDecimalLiteral(SubSeq(cs, 1, p - 1))
        /\ ds # <<>>
        /\ \A i \in 1..Len(ds) : ds[i] \in Digits

ExponentValue(cs) ==
    LET p    == ExponentAt(cs)
        m    == DecimalValue(SubSeq(cs, 1, p - 1))
        rest == SubSeq(cs, p + 1, Len(cs))
        neg  == Head(rest) = "-"
        ds   == IF Head(rest) \in {"+", "-"} THEN Tail(rest) ELSE rest
        k    == PowerOfTen(DigitsToNat(ds))
    IN  IF neg THEN Finite(m.num, m.den * k) ELSE Finite(m.num * k, m.den)

HexDigitValue ==
    DigitValue @@
    "a" :> 10 @@ "b" :> 11 @@ "c" :> 12 @@ "d" :> 13 @@ "e" :> 14 @@ "f" :> 15 @@
    "A" :> 10 @@ "B" :> 11 @@ "C" :> 12 @@ "D" :> 13 @@ "E" :> 14 @@ "F" :> 15

\* HexIntegerLiteral: 0x or 0X and at least one hexadecimal digit
IsHexLiteral(cs) ==
    /\ Len(cs) > 2
    /\ cs[1] = "0" /\ cs[2] \in {"x", "X"}
    /\ \A i \in 3..Len(cs) : cs[i] \in DOMAIN HexDigitValue

RECURSIVE HexToNat(_)
HexToNat(ds) ==
    IF ds = <<>> THEN 0
    ELSE 16 * HexToNat(SubSeq(ds, 1, Len(ds) - 1)) + HexDigitValue[ds[Len(ds)]]

\* Number(value): white space is trimmed, the empty string is 0; an unsigned
\* hexadecimal literal; an optional sign and Infinity or a decimal literal
\* with an optional exponent; anything else is NaN.
\* (Binary and octal literals are outside the values modelled.)
Signed(sign, d) == Finite(sign * d.num, d.den)

\* the literal that follows the optional sign
UnsignedLiteral(sign, body) ==
    IF body = Chars("Infinity") THEN Infinite(sign)
    ELSE IF IsDecimalLiteral(body) THEN Signed(sign, DecimalValue(body))
    ELSE IF IsExponentLiteral(body) THEN Signed(sign, ExponentValue(body))
    ELSE NaN

\* the trimmed string t as a StringNumericLiteral
StringNumericLiteral(t) ==
    IF t = <<>> THEN Finite(0, 1)
    ELSE IF IsHexLiteral(t) THEN Finite(HexToNat(SubSeq(t, 3, Len(t))), 1)
    ELSE IF Head(t) = "-" THEN UnsignedLiteral(-1, Tail(t))
    ELSE IF Head(t) = "+" THEN UnsignedLiteral(1, Tail(t))
    ELSE UnsignedLiteral(1, t)

ToNumber(v) == StringNumericLiteral(Trim(Chars(v)))

isNaN(n) == n.kind = "NaN"

IsInteger(n) == n.kind = "finite" /\ n.num % n.den = 0

\* mutant of NumberLess: the bound itself is excluded
NumberLess_OrEqual(n, bound) ==
    CASE n.kind = "NaN"      -> FALSE
      [] n.kind = "Infinity" -> n.num < 0
      [] OTHER               -> n.num <= bound * n.den

\* num < bound, bound an integer
NumberLess(n, bound) ==
    CASE n.kind = "NaN"      -> FALSE
      [] n.kind = "Infinity" -> n.num < 0
      [] OTHER               -> n.num < bound * n.den

\* num > bound, bound an integer
NumberGreater(n, bound) ==
    CASE n.kind = "NaN"      -> FALSE
      [] n.kind = "Infinity" -> n.num > 0
      [] OTHER               -> n.num > bound * n.den

RECURSIVE FractionDigits(_, _)
FractionDigits(f, den) ==
    IF f = 0 THEN ""
    ELSE ToString(f \div (den \div 10)) \o
         FractionDigits(f % (den \div 10), den \div 10)

\* `${num}` of a template literal
NumberToString(n) ==
    LET a == IF n.num < 0 THEN -n.num ELSE n.num
    IN  CASE n.kind = "NaN"      -> "NaN"
          [] n.kind = "Infinity" ->
                 IF n.num < 0 THEN "-Infinity" ELSE "Infinity"
          [] OTHER ->
                 (IF n.num < 0 THEN "-" ELSE "") \o ToString(a \div n.den) \o
                 (IF a % n.den = 0 THEN ""
                  ELSE "." \o FractionDigits(a % n.den, n.den))

-----------------------------------------------------------------------------
(* URL, e-mail and regular expressions *)

SpecialSchemes == {<<"h", "t", "t", "p">>, <<"h", "t", "t", "p", "s">>}

\* new URL(value) does not throw: the value has a scheme, and a URL of a
\* special scheme has a host
UrlParses(v) ==
    LET cs     == Trim(Chars(v))
        colons == {i \in 1..Len(cs) : cs[i] = ":"}
        p      == CHOOSE i \in colons : \A j \in colons : i <= j
        scheme == SubSeq(cs, 1, p - 1)
        rest   == SubSeq(cs, p + 1, Len(cs))
        slashes == {i \in 1..Len(rest) : \A j \in 1..i : rest[j] \in {"/", "\\"}}
        host   == SubSeq(rest, Cardinality(slashes) + 1, Len(rest))
    IN  /\ colons # {}
        /\ scheme # <<>>
        /\ scheme[1] \in Letters
        /\ \A i \in 1..Len(scheme) :
               scheme[i] \in Letters \cup Digits \cup {"+", "-", "."}
        /\ toLowerCase(scheme) \in SpecialSchemes =>
               /\ host # <<>>
               /\ host[1] \notin {"?", "#", ":"} \cup WhiteSpace

\* /^[^\s@]+@[^\s@]+\.[^\s@]+$/.test(value)
EmailMatches(v) ==
    LET cs  == Chars(v)
        ats == {i \in 1..Len(cs) : cs[i] = "@"}
    IN  /\ Cardinality(ats) = 1
        /\ \A i \in 1..Len(cs) : cs[i] \notin WhiteSpace
        /\ LET a == CHOOSE i \in ats : TRUE
           IN  /\ a > 1
               /\ \E d \in (a + 2)..(Len(cs) - 1) : cs[d] = "."

PatternLower == "^[a-z]+$"

PatternDigits == "^[0-9]+$"

PatternInvalid == "("

\* new RegExp(pattern) does not throw
RegExpCompiles(pattern) == pattern \in {"", PatternLower, PatternDigits}

\* new RegExp(pattern).test(value), for a pattern that compiles
RegExpTest(pattern, v) ==
    LET cs == Chars(v)
    IN  CASE pattern = PatternLower ->
                 cs # <<>> /\ \A i \in 1..Len(cs) : cs[i] \in LowerLetters
          [] pattern = PatternDigits ->
                 cs # <<>> /\ \A i \in 1..Len(cs) : cs[i] \in Digits
          [] OTHER -> TRUE

\* arr.join(sep)
RECURSIVE Join(_, _)
Join(list, sep) ==
    IF list = <<>> THEN ""
    ELSE IF Len(list) = 1 THEN list[1]
    ELSE list[1] \o sep \o Join(Tail(list), sep)

-----------------------------------------------------------------------------
(* validateEnvValue and validatePattern *)

Valid == [valid |-> TRUE, error |-> None]

Invalid(msg) == [valid |-> FALSE, error |-> Some(msg)]

BooleanLiterals == <<"true", "false", "1", "0", "yes", "no", "on", "off">>

\* arr.includes(x) for an array of strings and a string given by its characters
IncludesChars(list, cs) == \E i \in 1..Len(list) : Chars(list[i]) = cs

\* mutant of EnumIncludes: the comparison ignores case
EnumIncludes_IgnoreCase(enum, v) ==
    IsSet(enum) /\ \E i \in 1..Len(enum[1]) :
                       toLowerCase(Chars(enum[1][i])) = toLowerCase(Chars(v))

\* keyDef.enum?.includes(value): undefined when enum is undefined
EnumIncludes(enum, v) ==
    IsSet(enum) /\ \E i \in 1..Len(enum[1]) : enum[1][i] = v

\* `${keyDef.enum?.join(', ')}`
EnumText(enum) == IF IsSet(enum) THEN Join(enum[1], ", ") ELSE "undefined"

\* the checks of the number and int case on num = Number(value)
CheckNumber(num, v, def) ==
    IF isNaN(num)
    THEN Invalid("Expected number, got \"" \o v \o "\"")
    ELSE IF def.type = "int" /\ ~IsInteger(num)
    THEN Invalid("Expected integer, got \"" \o v \o "\"")
    ELSE IF IsSet(def.min) /\ NumberLess(num, def.min[1])
    THEN Invalid("Value " \o NumberToString(num) \o " is below minimum "
                 \o ToString(def.min[1]))
    ELSE IF IsSet(def.max) /\ NumberGreater(num, def.max[1])
    THEN Invalid("Value " \o NumberToString(num) \o " is above maximum "
                 \o ToString(def.max[1]))
    ELSE Valid

validateNumber(v, def) == CheckNumber(ToNumber(v), v, def)

\* mutant of validateBoolean: the value is compared without lower-casing
validateBoolean_CaseSensitive(v) ==
    IF ~IncludesChars(BooleanLiterals, Chars(v))
    THEN Invalid("Expected boolean, got \"" \o v \o "\"")
    ELSE Valid

validateBoolean(v) ==
    IF ~IncludesChars(BooleanLiterals, toLowerCase(Chars(v)))
    THEN Invalid("Expected boolean, got \"" \o v \o "\"")
    ELSE Valid

validateUrl(v) ==
    IF UrlParses(v) THEN Valid
    ELSE Invalid("Expected valid URL, got \"" \o v \o "\"")

validateEmail(v) ==
    IF ~EmailMatches(v)
    THEN Invalid("Expected valid email, got \"" \o v \o "\"")
    ELSE Valid

validateEnum(v, def) ==
    IF ~EnumIncludes(def.enum, v)
    THEN Invalid("Expected one of [" \o EnumText(def.enum) \o "], got \""
                 \o v \o "\"")
    ELSE Valid

PortMin == 1

PortMax == 65535

\* the check of the port case on port = Number(value)
CheckPort(port, v) ==
    IF \/ isNaN(port)
       \/ ~IsInteger(port)
       \/ NumberLess(port, PortMin)
       \/ NumberGreater(port, PortMax)
    THEN Invalid("Expected port number (1-65535), got \"" \o v \o "\"")
    ELSE Valid

validatePort(v) == CheckPort(ToNumber(v), v)

\* mutant of validateByType: a port is also held to the key's min and max
validateByType_PortHonoursBounds(v, def) ==
    CASE def.type = "string"            -> Valid
      [] def.type \in {"number", "int"} -> validateNumber(v, def)
      [] def.type = "boolean"           -> validateBoolean(v)
      [] def.type = "url"               -> validateUrl(v)
      [] def.type = "email"             -> validateEmail(v)
      [] def.type = "enum"              -> validateEnum(v, def)
      [] def.type = "port"              ->
             IF validatePort(v).valid THEN validateNumber(v, def)
             ELSE validatePort(v)
      [] OTHER                          -> Valid

\* the switch on keyDef.type
validateByType(v, def) ==
    CASE def.type = "string"            -> Valid
      [] def.type \in {"number", "int"} -> validateNumber(v, def)
      [] def.type = "boolean"           -> validateBoolean(v)
      [] def.type = "url"               -> validateUrl(v)
      [] def.type = "email"             -> validateEmail(v)
      [] def.type = "enum"              -> validateEnum(v, def)
      [] def.type = "port"              -> validatePort(v)
      [] OTHER                          -> Valid

\* mutant of validateEnvValue: the type dispatch comes before the emptiness
\* checks, so an empty string is accepted for a required string key
validateEnvValue_TypeFirst(v, def) ==
    IF def.type = "string" THEN Valid
    ELSE IF ~TruthyValue(v) /\ def.required
    THEN Invalid("Required key missing")
    ELSE IF ~TruthyValue(v)
    THEN Valid
    ELSE validateByType(v, def)

\* mutant of validateEnvValue: an empty value of an optional key goes on to
\* the type dispatch
validateEnvValue_EmptyDispatched(v, def) ==
    IF ~TruthyValue(v) /\ def.required
    THEN Invalid("Required key missing")
    ELSE validateByType(v, def)

validateEnvValue(v, def) ==
    IF ~TruthyValue(v) /\ def.required
    THEN Invalid("Required key missing")
    ELSE IF ~TruthyValue(v)
    THEN Valid
    ELSE validateByType(v, def)

validatePattern(v, pattern) ==
    IF RegExpCompiles(pattern)
    THEN IF ~RegExpTest(pattern, v)
         THEN Invalid("Value does not match pattern: " \o pattern)
         ELSE Valid
    ELSE Invalid("Invalid regex pattern: " \o pattern)

-----------------------------------------------------------------------------
(* Objects: own properties in insertion order, and what Object.prototype     *)
(* adds to a plain object's property lookup.                                 *)

\* Object.keys(obj)
ObjectKeys(obj) == [i \in 1..Len(obj) |-> obj[i][1]]

HasOwn(obj, k) == \E i \in 1..Len(obj) : obj[i][1] = k

OwnValue(obj, k) == obj[CHOOSE i \in 1..Len(obj) : obj[i][1] = k][2]

\* the properties every plain object ({} or a JSON.parse result) inherits
ObjectPrototypeKeys ==
    {"constructor", "toString", "toLocaleString", "valueOf", "hasOwnProperty",
     "isPrototypeOf", "propertyIsEnumerable", "__proto__"}

\* k in obj
HasProperty(obj, k) == HasOwn(obj, k) \/ k \in ObjectPrototypeKeys

\* obj[k] = v: an existing property keeps its place
SetProperty(obj, k, v) ==
    IF HasOwn(obj, k)
    THEN [i \in 1..Len(obj) |-> IF obj[i][1] = k THEN <<k, v>> ELSE obj[i]]
    ELSE Append(obj, <<k, v>>)

\* mutant of ObjectAssign: a property the target already has is kept
RECURSIVE ObjectAssign_KeepFirst(_, _)
ObjectAssign_KeepFirst(target, source) ==
    IF source = <<>> THEN target
    ELSE ObjectAssign_KeepFirst(
             IF HasOwn(target, Head(source)[1]) THEN target
             ELSE Append(target, Head(source)),
             Tail(source))

\* Object.assign(target, source)
RECURSIVE ObjectAssign(_, _)
ObjectAssign(target, source) ==
    IF source = <<>> THEN target
    ELSE ObjectAssign(SetProperty(target, Head(source)[1], Head(source)[2]),
                      Tail(source))

-----------------------------------------------------------------------------
(* SchemaKey, ValidationIssue *)

SchemaKey(name, type, required) ==
    [name |-> name, type |-> type, required |-> required, secret |-> FALSE,
     description |-> None, default |-> None, example |-> None, enum |-> None,
     pattern |-> None, deprecated |-> None, replacedBy |-> None,
     min |-> None, max |-> None]

\* A member inherited from Object.prototype, read as a SchemaKey: every
\* SchemaKey property of it is undefined (required is read for its truthiness
\* only, type matches no case of the switch).
InheritedMember == SchemaKey("Object", "undefined", FALSE)

\* schema.keys[keyName]: None is undefined
SchemaLookup(keys, keyName) ==
    IF HasOwn(keys, keyName) THEN Some(OwnValue(keys, keyName))
    ELSE IF keyName \in ObjectPrototypeKeys THEN Some(InheritedMember)
    ELSE None

Issue(key, type, message) ==
    [key |-> key, type |-> type, message |-> message, replacedBy |-> None]

-----------------------------------------------------------------------------
(* validateEnv *)

\* mutant of MissingErrors: a required key assigned the empty value is missing
RECURSIVE MissingErrors_EmptyIsMissing(_, _)
MissingErrors_EmptyIsMissing(entries, e) ==
    IF entries = <<>> THEN <<>>
    ELSE LET keyName == Head(entries)[1]
             def     == Head(entries)[2]
         IN  (IF def.required /\ (~HasProperty(e, keyName)
                                  \/ (HasOwn(e, keyName) /\ OwnValue(e, keyName) = ""))
              THEN <<Issue(keyName, "missing", "Required key missing")>>
              ELSE <<>>)
             \o MissingErrors_EmptyIsMissing(Tail(entries), e)

\* the first loop: one 'missing' error per required schema key not in env
RECURSIVE MissingErrors(_, _)
MissingErrors(entries, e) ==
    IF entries = <<>> THEN <<>>
    ELSE LET keyName == Head(entries)[1]
             def     == Head(entries)[2]
         IN  (IF def.required /\ ~HasProperty(e, keyName)
              THEN <<Issue(keyName, "missing", "Required key missing")>>
              ELSE <<>>)
             \o MissingErrors(Tail(entries), e)

\* if (!validation.valid) errors.push({key, type, message: validation.error})
PushIfInvalid(keyName, type, validation) ==
    IF ~validation.valid
    THEN <<Issue(keyName, type, validation.error[1])>>
    ELSE <<>>

TypeErrors(keyName, v, def) ==
    PushIfInvalid(keyName, "type", validateEnvValue(v, def))

\* mutant of PatternErrors: the pattern is checked only for a value of valid type
PatternErrors_AfterValidType(keyName, v, def) ==
    IF TruthyString(def.pattern) /\ validateEnvValue(v, def).valid
    THEN PushIfInvalid(keyName, "pattern", validatePattern(v, def.pattern[1]))
    ELSE <<>>

PatternErrors(keyName, v, def) ==
    IF TruthyString(def.pattern)
    THEN PushIfInvalid(keyName, "pattern", validatePattern(v, def.pattern[1]))
    ELSE <<>>

\* mutant of DeprecatedWarnings: the warning does not carry replacedBy
DeprecatedWarnings_NoReplacement(keyName, def) ==
    IF TruthyFlag(def.deprecated)
    THEN <<[key |-> keyName, type |-> "deprecated",
            message |-> IF TruthyString(def.replacedBy)
                        THEN "Deprecated. Use " \o def.replacedBy[1] \o " instead"
                        ELSE "This key is deprecated",
            replacedBy |-> None]>>
    ELSE <<>>

DeprecatedWarnings(keyName, def) ==
    IF TruthyFlag(def.deprecated)
    THEN <<[key |-> keyName, type |-> "deprecated",
            message |-> IF TruthyString(def.replacedBy)
                        THEN "Deprecated. Use " \o def.replacedBy[1] \o " instead"
                        ELSE "This key is deprecated",
            replacedBy |-> def.replacedBy]>>
    ELSE <<>>

UnknownIssue(keyName) ==
    Issue(keyName, "unknown", "Unknown key not defined in schema")

\* mutant of PresentKey: the pattern check runs before the type check
PresentKey_PatternFirst(keyName, v, keys, opts) ==
    LET found == SchemaLookup(keys, keyName)
    IN  IF IsSet(found)
        THEN [errors   |-> PatternErrors(keyName, v, found[1])
                           \o TypeErrors(keyName, v, found[1]),
              warnings |-> DeprecatedWarnings(keyName, found[1])]
        ELSE IF opts.strict
             THEN [errors |-> <<UnknownIssue(keyName)>>, warnings |-> <<>>]
             ELSE [errors |-> <<>>, warnings |-> <<UnknownIssue(keyName)>>]

\* mutant of PresentKey: an undeclared key is a warning whatever strict says
PresentKey_UnknownAsWarning(keyName, v, keys, opts) ==
    LET found == SchemaLookup(keys, keyName)
    IN  IF IsSet(found)
        THEN [errors   |-> TypeErrors(keyName, v, found[1])
                           \o PatternErrors(keyName, v, found[1]),
              warnings |-> DeprecatedWarnings(keyName, found[1])]
        ELSE [errors |-> <<>>, warnings |-> <<UnknownIssue(keyName)>>]

\* one iteration of the second loop: what it pushes to errors and to warnings
PresentKey(keyName, v, keys, opts) ==
    LET found == SchemaLookup(keys, keyName)
    IN  IF IsSet(found)
        THEN [errors   |-> TypeErrors(keyName, v, found[1])
                           \o PatternErrors(keyName, v, found[1]),
              warnings |-> DeprecatedWarnings(keyName, found[1])]
        ELSE IF opts.strict
             THEN [errors |-> <<UnknownIssue(keyName)>>, warnings |-> <<>>]
             ELSE [errors |-> <<>>, warnings |-> <<UnknownIssue(keyName)>>]

\* mutant of PresentErrors: the loop ends at the first key that has an error
RECURSIVE PresentErrors_StopAtFirst(_, _, _)
PresentErrors_StopAtFirst(entries, keys, opts) ==
    IF entries = <<>> THEN <<>>
    ELSE LET first == PresentKey(Head(entries)[1], Head(entries)[2], keys, opts)
         IN  IF first.errors # <<>> THEN first.errors
             ELSE PresentErrors_StopAtFirst(Tail(entries), keys, opts)

RECURSIVE PresentErrors(_, _, _)
PresentErrors(entries, keys, opts) ==
    IF entries = <<>> THEN <<>>
    ELSE PresentKey(Head(entries)[1], Head(entries)[2], keys, opts).errors
         \o PresentErrors(Tail(entries), keys, opts)

RECURSIVE PresentWarnings(_, _, _)
PresentWarnings(entries, keys, opts) ==
    IF entries = <<>> THEN <<>>
    ELSE PresentKey(Head(entries)[1], Head(entries)[2], keys, opts).warnings
         \o PresentWarnings(Tail(entries), keys, opts)

\* arr.filter(x => x.type === t).length
CountType(issues, t) ==
    Cardinality({i \in 1..Len(issues) : issues[i].type = t})

Stats(e, errors, warnings) ==
    [checked    |-> Len(ObjectKeys(e)),
     missing    |-> CountType(errors, "missing"),
     deprecated |-> CountType(warnings, "deprecated"),
     unknown    |-> CountType(warnings, "unknown")]

\* mutant of ShouldFail: warnings fail the run whether or not failOnWarn is set
ShouldFail_AnyWarning(errors, warnings, opts) ==
    Len(errors) > 0 \/ Len(warnings) > 0

ShouldFail(errors, warnings, opts) ==
    Len(errors) > 0 \/ (opts.failOnWarn /\ Len(warnings) > 0)

\* the object validateEnv returns, from the issues the two loops collected
ValidationResult(e, errors, warnings, opts) ==
    [ok       |-> ~ShouldFail(errors, warnings, opts),
     errors   |-> errors,
     warnings |-> warnings,
     files    |-> ObjectKeys(e),
     stats    |-> Stats(e, errors, warnings)]

validateEnv(e, keys, opts) ==
    ValidationResult(e,
                     MissingErrors(keys, e) \o PresentErrors(e, keys, opts),
                     PresentWarnings(e, keys, opts),
                     opts)

-----------------------------------------------------------------------------
(* parseEnvFiles *)

WorkingDirectory == "/app"

\* path.resolve of a relative path
resolve(path) == WorkingDirectory \o "/" \o path

Absent == [state |-> "absent", lines |-> <<>>]

Unreadable == [state |-> "unreadable", lines |-> <<>>]

Present(lines) == [state |-> "present", lines |-> lines]

\* dotenv's parse: each KEY=VALUE line assigns obj[KEY] = VALUE
DotenvParse(lines) == ObjectAssign(<<>>, lines)

Threw(message) == [threw |-> TRUE, message |-> message]

\* the loop of parseEnvFiles from the given files and merged on; a file that
\* exists and cannot be read ends the whole call with an error
RECURSIVE ParseLoop(_, _, _, _)
ParseLoop(paths, d, files, merged) ==
    IF paths = <<>>
    THEN [threw |-> FALSE, files |-> files, merged |-> merged]
    ELSE LET envPath  == Head(paths)
             fullPath == resolve(envPath)
             exists   == d[fullPath].state # "absent"
             content  == IF exists THEN DotenvParse(d[fullPath].lines)
                         ELSE <<>>
         IN  IF d[fullPath].state = "unreadable"
             THEN Threw("Failed to parse " \o envPath)
             ELSE ParseLoop(Tail(paths), d,
                            Append(files, [path    |-> fullPath,
                                           exists  |-> exists,
                                           content |-> content]),
                            ObjectAssign(merged, content))

parseEnvFiles(paths, d) == ParseLoop(paths, d, <<>>, <<>>)

-----------------------------------------------------------------------------
(* loadSchema: the fluent (Zod) adapter *)

ZodNode(typeName) ==
    [typeName |-> typeName, description |-> None, defaultValue |-> None,
     innerType |-> None, checks |-> <<>>, values |-> None, secret |-> FALSE]

Check(kind) == [kind |-> kind, value |-> 0, source |-> ""]

CheckValue(kind, n) == [kind |-> kind, value |-> n, source |-> ""]

CheckRegex(source) == [kind |-> "regex", value |-> 0, source |-> source]

\* checks?.some(check => check.kind === kind)
SomeCheck(checks, kind) == \E i \in 1..Len(checks) : checks[i].kind = kind

\* checks?.find(check => check.kind === kind): None is undefined
FindCheck(checks, kind) ==
    LET hits == {i \in 1..Len(checks) : checks[i].kind = kind}
    IN  IF hits = {} THEN None
        ELSE Some(checks[CHOOSE i \in hits : \A j \in hits : i <= j])

ZodWrappers == {"ZodOptional", "ZodDefault"}

\* mutant of ClassifyZod: an integer check takes precedence over the port range
ClassifyZod_IntFirst(key, node) ==
    LET k1 == IF node.secret THEN [key EXCEPT !.secret = TRUE] ELSE key
        regexCheck == FindCheck(node.checks, "regex")
        minCheck   == FindCheck(node.checks, "min")
        maxCheck   == FindCheck(node.checks, "max")
        stringType == IF SomeCheck(node.checks, "email") THEN "email"
                      ELSE IF SomeCheck(node.checks, "url") THEN "url"
                      ELSE "string"
        numberType == IF SomeCheck(node.checks, "int") THEN "int"
                      ELSE IF /\ IsSet(minCheck) /\ minCheck[1].value = 1
                              /\ IsSet(maxCheck) /\ maxCheck[1].value = 65535
                      THEN "port"
                      ELSE "number"
    IN  CASE node.typeName = "ZodString" ->
                 [k1 EXCEPT !.type = stringType,
                            !.pattern = IF IsSet(regexCheck)
                                        THEN Some(regexCheck[1].source)
                                        ELSE None]
          [] node.typeName = "ZodNumber" ->
                 [k1 EXCEPT !.type = numberType,
                            !.min = IF IsSet(minCheck)
                                    THEN Some(minCheck[1].value) ELSE None,
                            !.max = IF IsSet(maxCheck)
                                    THEN Some(maxCheck[1].value) ELSE None]
          [] node.typeName = "ZodBoolean" -> [k1 EXCEPT !.type = "boolean"]
          [] node.typeName = "ZodEnum" ->
                 [k1 EXCEPT !.type = "enum", !.enum = node.values]
          [] OTHER -> k1

\* the classification of a node that is no wrapper, onto key
ClassifyZod(key, node) ==
    LET k1 == IF node.secret THEN [key EXCEPT !.secret = TRUE] ELSE key
        regexCheck == FindCheck(node.checks, "regex")
        minCheck   == FindCheck(node.checks, "min")
        maxCheck   == FindCheck(node.checks, "max")
        stringType == IF SomeCheck(node.checks, "email") THEN "email"
                      ELSE IF SomeCheck(node.checks, "url") THEN "url"
                      ELSE "string"
        numberType == IF /\ IsSet(minCheck) /\ minCheck[1].value = 1
                         /\ IsSet(maxCheck) /\ maxCheck[1].value = 65535
                      THEN "port"
                      ELSE IF SomeCheck(node.checks, "int") THEN "int"
                      ELSE "number"
    IN  CASE node.typeName = "ZodString" ->
                 [k1 EXCEPT !.type = stringType,
                            !.pattern = IF IsSet(regexCheck)
                                        THEN Some(regexCheck[1].source)
                                        ELSE None]
          [] node.typeName = "ZodNumber" ->
                 [k1 EXCEPT !.type = numberType,
                            !.min = IF IsSet(minCheck)
                                    THEN Some(minCheck[1].value) ELSE None,
                            !.max = IF IsSet(maxCheck)
                                    THEN Some(maxCheck[1].value) ELSE None]
          [] node.typeName = "ZodBoolean" -> [k1 EXCEPT !.type = "boolean"]
          [] node.typeName = "ZodEnum" ->
                 [k1 EXCEPT !.type = "enum", !.enum = node.values]
          [] OTHER -> k1

\* The key object parseZodType builds before it looks at the node's class:
\* description and default are read from the node itself.
ZodKeyStart(keyName, node) ==
    [SchemaKey(keyName, "string", TRUE) EXCEPT
         !.description = node.description,
         !.default = node.defaultValue]

\* what parseZodType returns for a wrapper node: the result of the recursive
\* call on the inner node (the key object built for the wrapper is dropped)
ZodWrapperResult(wrapperKey, innerResult) == innerResult

RECURSIVE parseZodType(_, _)
parseZodType(keyName, node) ==
    LET key == ZodKeyStart(keyName, node)
    IN  IF node.typeName \in ZodWrappers
        THEN ZodWrapperResult([key EXCEPT !.required = FALSE],
                              parseZodType(keyName, node.innerType[1]))
        ELSE ClassifyZod(key, node)

\* keys[keyName] = parse(keyName, entry) for each entry, in order
RECURSIVE ZodKeys(_, _)
ZodKeys(shape, keys) ==
    IF shape = <<>> THEN keys
    ELSE ZodKeys(Tail(shape),
                 SetProperty(keys, Head(shape)[1],
                             parseZodType(Head(shape)[1], Head(shape)[2])))

Loaded(keys, source, path) ==
    [threw |-> FALSE, keys |-> keys, source |-> source, path |-> path]

\* file.export: None (no default export) or the exported value,
\* [zodObject |-> BOOLEAN, shape |-> fields]
loadZodSchema(path, file) ==
    IF ~IsSet(file.export) \/ ~file.export[1].zodObject
    THEN Threw("Failed to load Zod schema: Schema file must export a Zod object schema as default export")
    ELSE Loaded(ZodKeys(file.export[1].shape, <<>>), "zod", path)

-----------------------------------------------------------------------------
(* loadSchema: the declarative (JSON) adapter *)

JsonEntry ==
    [type |-> None, optional |-> None, required |-> None, secret |-> None,
     description |-> None, default |-> None, example |-> None, enum |-> None,
     pattern |-> None, deprecated |-> None, replacedBy |-> None,
     min |-> None, max |-> None, format |-> None]

\* !keyDef.optional
JsonRequired(entry) == ~TruthyFlag(entry.optional)

parseJsonKey(keyName, entry) ==
    [name        |-> keyName,
     type        |-> IF TruthyString(entry.type) THEN entry.type[1] ELSE "string",
     required    |-> JsonRequired(entry),
     secret      |-> TruthyFlag(entry.secret),
     description |-> IF TruthyString(entry.description)
                     THEN entry.description ELSE None,
     default     |-> entry.default,
     example     |-> entry.example,
     enum        |-> entry.enum,
     pattern     |-> IF TruthyString(entry.pattern) THEN entry.pattern ELSE None,
     deprecated  |-> IF TruthyFlag(entry.deprecated)
                     THEN entry.deprecated ELSE None,
     replacedBy  |-> IF TruthyString(entry.replacedBy)
                     THEN entry.replacedBy ELSE None,
     min         |-> entry.min,
     max         |-> entry.max]

RECURSIVE JsonKeys(_, _)
JsonKeys(properties, keys) ==
    IF properties = <<>> THEN keys
    ELSE JsonKeys(Tail(properties),
                  SetProperty(keys, Head(properties)[1],
                              parseJsonKey(Head(properties)[1],
                                           Head(properties)[2])))

\* mutant of loadJsonSchema: a document without "properties" loads as a schema
\* with no keys
loadJsonSchema_PropertiesOptional(path, file) ==
    IF ~IsSet(file.properties)
    THEN Loaded(<<>>, "json", path)
    ELSE Loaded(JsonKeys(file.properties[1], <<>>), "json", path)

\* file.properties: None when the JSON document has no "properties" member
loadJsonSchema(path, file) ==
    IF ~IsSet(file.properties)
    THEN Threw("Failed to load JSON schema: JSON schema must have a \"properties\" object")
    ELSE Loaded(JsonKeys(file.properties[1], <<>>), "json", path)

\* a schema file on disk: its extension and what it holds
SchemaFile(ext) ==
    [exists |-> TRUE, name |-> "env.schema." \o ext, ext |-> ext,
     export |-> None, properties |-> None]

MissingSchemaFile == [SchemaFile("ts") EXCEPT !.exists = FALSE]

ZodFile(shape) ==
    [SchemaFile("ts") EXCEPT
         !.export = Some([zodObject |-> TRUE, shape |-> shape])]

JsonFile(properties) == [SchemaFile("json") EXCEPT !.properties = properties]

loadSchema(file) ==
    LET fullPath == resolve(file.name)
    IN  IF ~file.exists THEN Threw("Schema file not found: " \o fullPath)
        ELSE IF file.ext \in {"ts", "js"} THEN loadZodSchema(fullPath, file)
        ELSE IF file.ext = "json" THEN loadJsonSchema(fullPath, file)
        ELSE Threw("Unsupported schema format: " \o file.ext
                   \o ". Use .ts/.js for Zod or .json for JSON schema")

-----------------------------------------------------------------------------
(* Inputs *)

MaxSchemaKeys == 2

MaxEnvKeys == 2

SchemaTypes ==
    {"string", "number", "int", "boolean", "url", "email", "enum", "port"}

\* a type string outside the eight, which the JSON adapter copies through
OtherTypes == {"integer"}

ValuePool == DOMAIN StringChars

OnOff == <<"on", "off">>

\* the key definitions validateEnvValue is applied to
ValueKeyDefs ==
    {[SchemaKey("NODE_ENV", t, r) EXCEPT
          !.secret = s, !.enum = e, !.pattern = p, !.min = lo, !.max = hi] :
        t \in SchemaTypes \cup OtherTypes, r \in BOOLEAN, s \in BOOLEAN,
        e \in {None, Some(OnOff)},
        p \in {None, Some(PatternLower), Some(PatternDigits),
               Some(PatternInvalid)},
        lo \in {None, Some(1)}, hi \in {None, Some(80)}}

\* key names: two ordinary ones and one that Object.prototype also defines
KeyNames == {"NODE_ENV", "PORT", "constructor"}

\* the key definitions of the schemas validateEnv is applied to, without name
KeyShapes ==
    {SchemaKey("", "enum", TRUE),
     [SchemaKey("", "port", FALSE) EXCEPT
          !.pattern = Some(PatternDigits), !.deprecated = Some(TRUE)],
     [SchemaKey("", "string", TRUE) EXCEPT !.pattern = Some(PatternInvalid)],
     [SchemaKey("", "string", FALSE) EXCEPT
          !.pattern = Some(PatternLower), !.deprecated = Some(TRUE),
          !.replacedBy = Some("PORT")]}

Named(shape, name) ==
    [shape EXCEPT !.name = name,
                  !.enum = IF shape.type = "enum" THEN Some(OnOff) ELSE None]

\* objects with at most n properties: keys from names, values from vals
ObjectsOver(names, vals, n) ==
    UNION {{[i \in 1..Len(ks) |-> <<ks[i], f[i]>>] : f \in [1..Len(ks) -> vals]} :
           ks \in DistinctSeqs(names, n)}

SchemaPool ==
    {[i \in 1..Len(o) |-> <<o[i][1], Named(o[i][2], o[i][1])>>] :
        o \in ObjectsOver(KeyNames, KeyShapes, MaxSchemaKeys)}

EnvValues == {"", "on", "80"}

EnvPool == ObjectsOver(KeyNames, EnvValues, MaxEnvKeys)

OptionsPool == [strict : BOOLEAN, failOnWarn : BOOLEAN]

-----------------------------------------------------------------------------
(* validateEnvValue and validatePattern applied to one value *)

InitValue ==
    /\ pc = "value"
    /\ value \in ValuePool
    /\ keyDef \in ValueKeyDefs
    /\ valueResult = Null
    /\ patternResult = Null
    /\ env = <<>> /\ schema = <<>> /\ options = Null /\ result = Null
    /\ disk = Null /\ envPaths = <<>> /\ parsed = Null
    /\ schemaFile = Null /\ loaded = Null
    /\ cli = Null /\ gitignore = "ignored" /\ printed = <<>> /\ exitCode = None
    /\ data = Null /\ redacted = Null /\ written = None

ValidateEnvValue ==
    /\ pc = "value"
    /\ valueResult' = validateEnvValue(value, keyDef)
    /\ pc' = "pattern"
    /\ UNCHANGED <<value, keyDef, patternResult, env, schema, options, result,
                   disk, envPaths, parsed, schemaFile, loaded, cli, gitignore,
                   printed, exitCode,
                   data, redacted, written>>

ValidatePattern ==
    /\ pc = "pattern"
    /\ IsSet(keyDef.pattern)
    /\ patternResult' = validatePattern(value, keyDef.pattern[1])
    /\ pc' = "done"
    /\ UNCHANGED <<value, keyDef, valueResult, env, schema, options, result,
                   disk, envPaths, parsed, schemaFile, loaded, cli, gitignore,
                   printed, exitCode,
                   data, redacted, written>>

NextValue == ValidateEnvValue \/ ValidatePattern

SpecValue == InitValue /\ [][NextValue]_vars

-----------------------------------------------------------------------------
(* validateEnv applied to a mapping and a schema *)

InitValidateOver(schemas, envs) ==
    /\ pc = "validate"
    /\ schema \in schemas
    /\ env \in envs
    /\ options \in OptionsPool
    /\ result = Null
    /\ value = "" /\ keyDef = Null /\ valueResult = Null /\ patternResult = Null
    /\ disk = Null /\ envPaths = <<>> /\ parsed = Null
    /\ schemaFile = Null /\ loaded = Null
    /\ cli = Null /\ gitignore = "ignored" /\ printed = <<>> /\ exitCode = None
    /\ data = Null /\ redacted = Null /\ written = None

ValidateEnv ==
    /\ pc = "validate"
    /\ result' = validateEnv(env, schema, options)
    /\ pc' = "validated"
    /\ UNCHANGED <<value, keyDef, valueResult, patternResult, env, schema,
                   options, disk, envPaths, parsed, schemaFile, loaded, cli,
                   gitignore, printed, exitCode,
                   data, redacted, written>>

InitValidate == InitValidateOver(SchemaPool, EnvPool)

NextValidate == ValidateEnv

SpecValidate == InitValidate /\ [][NextValidate]_vars

\* key definitions that differ in deprecated and replacedBy only, without name
DeprecationShapes ==
    {[SchemaKey("", "string", FALSE) EXCEPT !.deprecated = d, !.replacedBy = r] :
        d \in {None, Some(TRUE), Some(FALSE)}, r \in {None, Some("PORT")}}

\* schemas of deprecated and current keys, against mappings of valid values
InitDeprecated ==
    InitValidateOver(
        {[i \in 1..Len(o) |-> <<o[i][1], Named(o[i][2], o[i][1])>>] :
            o \in ObjectsOver(KeyNames, DeprecationShapes, MaxSchemaKeys)},
        ObjectsOver(KeyNames, {"on"}, MaxEnvKeys))

SpecDeprecated == InitDeprecated /\ [][NextValidate]_vars

\* a required key without pattern, a required key with a pattern, and an
\* optional deprecated key, without name
IssueShapes ==
    {SchemaKey("", "enum", TRUE),
     [SchemaKey("", "string", TRUE) EXCEPT !.pattern = Some(PatternInvalid)],
     [SchemaKey("", "port", FALSE) EXCEPT !.deprecated = Some(TRUE)]}

\* schemas of such keys, against mappings that assign the empty value or "on"
InitIssues ==
    InitValidateOver(
        {[i \in 1..Len(o) |-> <<o[i][1], Named(o[i][2], o[i][1])>>] :
            o \in ObjectsOver(KeyNames, IssueShapes, MaxSchemaKeys)},
        ObjectsOver(KeyNames, {"", "on"}, MaxEnvKeys))

SpecIssues == InitIssues /\ [][NextValidate]_vars

\* one declared key, every type and constraint, against one assigned value
InitKey ==
    InitValidateOver({<<<<d.name, d>>>> : d \in ValueKeyDefs},
                     {<<<<"NODE_ENV", v>>>> : v \in ValuePool})

SpecKey == InitKey /\ [][NextValidate]_vars

-----------------------------------------------------------------------------
(* The check command: load schema, parse env files, validate, print, exit *)

CliPool == [json : BOOLEAN, ci : BOOLEAN, strict : BOOLEAN]

GitignoreStates == {"absent", "ignored", "notIgnored", "unreadable"}

InitCheckOver(start, schemaFiles, disks, pathLists, gitignores) ==
    /\ pc = start
    /\ schemaFile \in schemaFiles
    /\ disk \in disks
    /\ envPaths \in pathLists
    /\ cli \in CliPool
    /\ gitignore \in gitignores
    /\ loaded = Null /\ parsed = Null
    /\ schema = <<>> /\ env = <<>> /\ options = Null /\ result = Null
    /\ value = "" /\ keyDef = Null /\ valueResult = Null /\ patternResult = Null
    /\ printed = <<>> /\ exitCode = None
    /\ data = Null /\ redacted = Null /\ written = None

LoadSchema ==
    /\ pc = "load"
    /\ loaded' = loadSchema(schemaFile)
    /\ IF loaded'.threw
       THEN pc' = "catch" /\ schema' = schema
       ELSE pc' = "parse" /\ schema' = loaded'.keys
    /\ UNCHANGED <<value, keyDef, valueResult, patternResult, env, options,
                   result, disk, envPaths, parsed, schemaFile, cli, gitignore,
                   printed, exitCode,
                   data, redacted, written>>

ParseEnvFiles ==
    /\ pc = "parse"
    /\ parsed' = parseEnvFiles(envPaths, disk)
    /\ IF parsed'.threw
       THEN pc' = "catch" /\ env' = env /\ options' = options
       ELSE /\ pc' = "validate"
            /\ env' = parsed'.merged
            /\ options' = [strict |-> cli.strict, failOnWarn |-> cli.ci]
    /\ UNCHANGED <<value, keyDef, valueResult, patternResult, schema, result,
                   disk, envPaths, schemaFile, loaded, cli, gitignore, printed,
                   exitCode,
                   data, redacted, written>>

\* console.log(formatJson(result)) or logger.info(formatHuman(result))
PrintResult ==
    /\ pc = "validated"
    /\ printed' = Append(printed,
                         [format |-> IF cli.json THEN "json" ELSE "human",
                          result |-> result])
    /\ pc' = "gitignore"
    /\ UNCHANGED <<value, keyDef, valueResult, patternResult, env, schema,
                   options, result, disk, envPaths, parsed, schemaFile, loaded,
                   cli, gitignore, exitCode,
                   data, redacted, written>>

\* checkGitignore(): reading an existing .gitignore may throw
CheckGitignore ==
    /\ pc = "gitignore"
    /\ pc' = IF gitignore = "unreadable" THEN "catch" ELSE "exit"
    /\ printed' = IF gitignore \in {"absent", "notIgnored"}
                  THEN Append(printed, [format |-> "warn", result |-> Null])
                  ELSE printed
    /\ UNCHANGED <<value, keyDef, valueResult, patternResult, env, schema,
                   options, result, disk, envPaths, parsed, schemaFile, loaded,
                   cli, gitignore, exitCode,
                   data, redacted, written>>

\* mutant of Exit: the exit code is 0 whatever the result
Exit_AlwaysZero ==
    /\ pc = "exit"
    /\ exitCode' = Some(0)
    /\ pc' = "done"
    /\ UNCHANGED <<value, keyDef, valueResult, patternResult, env, schema,
                   options, result, disk, envPaths, parsed, schemaFile, loaded,
                   cli, gitignore, printed,
                   data, redacted, written>>

Exit ==
    /\ pc = "exit"
    /\ exitCode' = Some(IF result.ok THEN 0 ELSE 1)
    /\ pc' = "done"
    /\ UNCHANGED <<value, keyDef, valueResult, patternResult, env, schema,
                   options, result, disk, envPaths, parsed, schemaFile, loaded,
                   cli, gitignore, printed,
                   data, redacted, written>>

Catch ==
    /\ pc = "catch"
    /\ printed' = Append(printed, [format |-> "error", result |-> Null])
    /\ exitCode' = Some(2)
    /\ pc' = "done"
    /\ UNCHANGED <<value, keyDef, valueResult, patternResult, env, schema,
                   options, result, disk, envPaths, parsed, schemaFile, loaded,
                   cli, gitignore,
                   data, redacted, written>>

NextCheck ==
    \/ LoadSchema
    \/ ParseEnvFiles
    \/ ValidateEnv
    \/ PrintResult
    \/ CheckGitignore
    \/ Exit
    \/ Catch

-----------------------------------------------------------------------------
(* parseEnvFiles applied to a list of paths *)

MaxFiles == 2

MaxLines == 2

EnvPaths == {".env", ".env.local"}

RECURSIVE SeqsUpTo(_, _)
SeqsUpTo(S, n) ==
    IF n = 0 THEN {<<>>}
    ELSE LET shorter == SeqsUpTo(S, n - 1)
         IN  shorter \cup {Append(s, x) : s \in shorter, x \in S}

\* KEY=VALUE lines; a file may assign a key twice
LinePool == {<<k, v>> : k \in {"NODE_ENV", "PORT"}, v \in {"on", "80"}}

FileStates ==
    {Absent, Unreadable} \cup {Present(ls) : ls \in SeqsUpTo(LinePool, MaxLines)}

DiskPool == [{resolve(path) : path \in EnvPaths} -> FileStates]

InitParse ==
    InitCheckOver("parse", {MissingSchemaFile}, DiskPool,
                  SeqsUpTo(EnvPaths, MaxFiles), {"ignored"})

NextParse == ParseEnvFiles

SpecParse == InitParse /\ [][NextParse]_vars

-----------------------------------------------------------------------------
(* The check command on a schema file of one field *)

MaxWrap == 2

Described(nodes) ==
    nodes \cup {[n EXCEPT !.description = Some("Debug mode")] : n \in nodes}

ZodPrimitives ==
    Described(
        {ZodNode("ZodString"), ZodNode("ZodBoolean"), ZodNode("ZodDate"),
         ZodNode("ZodNumber"),
         [ZodNode("ZodEnum") EXCEPT !.values = Some(OnOff)],
         [ZodNode("ZodString") EXCEPT !.checks = <<Check("url")>>],
         [ZodNode("ZodString") EXCEPT !.checks = <<Check("email")>>],
         [ZodNode("ZodString") EXCEPT !.checks = <<CheckRegex(PatternLower)>>],
         [ZodNode("ZodString") EXCEPT !.checks = <<CheckValue("min", 1)>>,
                                      !.secret = TRUE],
         [ZodNode("ZodNumber") EXCEPT !.checks = <<Check("int")>>],
         [ZodNode("ZodNumber") EXCEPT
              !.checks = <<CheckValue("min", 1), CheckValue("max", 65535)>>],
         [ZodNode("ZodNumber") EXCEPT
              !.checks = <<Check("int"), CheckValue("min", 1),
                           CheckValue("max", 65535)>>],
         [ZodNode("ZodNumber") EXCEPT
              !.checks = <<Check("int"), CheckValue("min", 0),
                           CheckValue("max", 80)>>]})

\* node.optional() and node.default(v), with or without a description
ZodWrap(nodes) ==
    {[ZodNode("ZodOptional") EXCEPT !.innerType = Some(n), !.description = d] :
        n \in nodes, d \in {None, Some("Debug mode")}}
    \cup
    {[ZodNode("ZodDefault") EXCEPT
          !.innerType = Some(n), !.description = d, !.defaultValue = Some("on")] :
        n \in nodes, d \in {None, Some("Debug mode")}}

RECURSIVE ZodNodes(_)
ZodNodes(depth) ==
    IF depth = 0 THEN ZodPrimitives
    ELSE ZodPrimitives \cup ZodWrap(ZodNodes(depth - 1))

JsonEntries ==
    {[JsonEntry EXCEPT !.type = t, !.optional = o, !.required = r,
                       !.enum = IF t = Some("enum") THEN Some(OnOff) ELSE None,
                       !.deprecated = dep, !.secret = sec] :
        t \in {None, Some("enum"), Some("port"), Some("integer")},
        o \in {None, Some(TRUE), Some(FALSE)},
        r \in {None, Some(TRUE), Some(FALSE)},
        dep \in {None, Some(TRUE)}, sec \in {None, Some(TRUE)}}

FieldName == "NODE_ENV"

SchemaFiles ==
    {MissingSchemaFile, SchemaFile("yaml"), SchemaFile("ts"),
     JsonFile(None), JsonFile(Some(<<>>)), ZodFile(<<>>)}
    \cup {ZodFile(<<<<FieldName, n>>>>) : n \in ZodNodes(MaxWrap)}
    \cup {JsonFile(Some(<<<<FieldName, e>>>>)) : e \in JsonEntries}

LoadDisks ==
    {[f \in {resolve(path) : path \in EnvPaths} |->
          IF f = resolve(".env") THEN st ELSE Absent] :
        st \in {Absent, Unreadable, Present(<<<<FieldName, "on">>>>),
                Present(<<<<"PORT", "80">>>>),
                Present(<<<<FieldName, "on">>, <<"PORT", "80">>,
                          <<"DEBUG", "on">>>>)}}

InitLoad ==
    InitCheckOver("load", SchemaFiles, LoadDisks, {<<".env">>}, {"ignored"})

SpecLoad == InitLoad /\ [][NextCheck]_vars

-----------------------------------------------------------------------------
(* loadSchema applied to a schema file of one field *)

\* a file whose default export is a validator, but not an object of fields
NotAnObjectFile ==
    [SchemaFile("ts") EXCEPT
         !.export = Some([zodObject |-> FALSE, shape |-> <<>>])]

\* z.number() with or without int(), min(lo) and max(hi)
NumberNodes ==
    {[ZodNode("ZodNumber") EXCEPT
          !.checks = (IF int THEN <<Check("int")>> ELSE <<>>)
                     \o (IF IsSet(lo) THEN <<CheckValue("min", lo[1])>> ELSE <<>>)
                     \o (IF IsSet(hi) THEN <<CheckValue("max", hi[1])>> ELSE <<>>)] :
        int \in BOOLEAN, lo \in {None, Some(0), Some(1)},
        hi \in {None, Some(80), Some(65535)}}

RECURSIVE AdapterNodes(_)
AdapterNodes(depth) ==
    IF depth = 0 THEN ZodPrimitives \cup NumberNodes
    ELSE ZodPrimitives \cup NumberNodes \cup ZodWrap(AdapterNodes(depth - 1))

AdapterEntries ==
    {[JsonEntry EXCEPT !.type = t, !.enum = e, !.optional = o, !.default = d,
                       !.format = x] :
        t \in {None, Some("string"), Some("int"), Some("enum"), Some("integer")},
        e \in {None, Some(OnOff), Some(<<>>)},
        o \in {None, Some(TRUE)},
        d \in {None, Some("on")},
        x \in {None, Some("hostname")}}

AdapterFiles ==
    {MissingSchemaFile, SchemaFile("yaml"), SchemaFile("ts"), NotAnObjectFile,
     JsonFile(None), JsonFile(Some(<<>>)), ZodFile(<<>>)}
    \cup {ZodFile(<<<<FieldName, n>>>>) : n \in AdapterNodes(MaxWrap)}
    \cup {JsonFile(Some(<<<<FieldName, e>>>>)) : e \in AdapterEntries}

InitAdapters ==
    InitCheckOver("load", AdapterFiles,
                  {[f \in {resolve(path) : path \in EnvPaths} |-> Absent]},
                  {<<".env">>}, {"ignored"})

NextAdapters == LoadSchema

SpecAdapters == InitAdapters /\ [][NextAdapters]_vars

-----------------------------------------------------------------------------
(* redactSecrets of the JSON formatter, on JSON values *)

JString(text) == [kind |-> "string", text |-> text]

JNumber(n) == [kind |-> "number", n |-> n]

JNull == [kind |-> "null"]

JArray(items) == [kind |-> "array", items |-> items]

JObject(entries) == [kind |-> "object", entries |-> entries]

\* typeof x === 'object' && x !== null
IsObjectLike(x) == x.kind \in {"array", "object"}

Redacted == JString("<redacted>")

RECURSIVE redactSecrets(_, _)
RECURSIVE RedactEntries(_, _, _)

\* mutant of redactSecrets: an array is returned as it is
redactSecrets_ArraysAsIs(o, keys) ==
    IF ~IsObjectLike(o) THEN o
    ELSE IF o.kind = "array" THEN o
    ELSE JObject(RedactEntries(o.entries, keys, <<>>))

\* the loop over Object.entries(obj), filling the object redacted
RedactEntries(entries, keys, filled) ==
    IF entries = <<>> THEN filled
    ELSE LET key    == Head(entries)[1]
             val    == Head(entries)[2]
             found  == SchemaLookup(keys, key)
             secret == IsSet(found) /\ found[1].secret
         IN  RedactEntries(
                 Tail(entries), keys,
                 SetProperty(filled, key,
                             IF secret /\ val.kind = "string" THEN Redacted
                             ELSE IF IsObjectLike(val)
                                  THEN redactSecrets(val, keys)
                             ELSE val))

redactSecrets(o, keys) ==
    IF ~IsObjectLike(o) THEN o
    ELSE IF o.kind = "array"
    THEN JArray([i \in 1..Len(o.items) |-> redactSecrets(o.items[i], keys)])
    ELSE JObject(RedactEntries(o.entries, keys, <<>>))

MaxItems == 2

JsonKeyNames == {"API_KEY", "constructor"}

Leaves == {JString("hunter2"), JNumber(80), JNull}

\* objects whose values are leaves
FlatObjects ==
    {JObject(o) : o \in ObjectsOver(JsonKeyNames, Leaves, Cardinality(JsonKeyNames))}

\* arrays of leaves and of objects with one property
Lists ==
    {JArray(items) :
        items \in SeqsUpTo(Leaves \cup {o \in FlatObjects : Len(o.entries) = 1},
                           MaxItems)}

\* a leaf, an array, a flat object, or an object with an array or an object
\* as its first value
JsonPool ==
    Leaves \cup Lists \cup FlatObjects
    \cup {JObject(<<<<k, x>>>>) : k \in JsonKeyNames, x \in Lists \cup FlatObjects}
    \cup {JObject(<<<<kh[1], x>>, <<kh[2], y>>>>) :
             kh \in {p \in JsonKeyNames \X JsonKeyNames : p[1] # p[2]},
             x \in Lists \cup FlatObjects, y \in Leaves}

\* each key undeclared, declared, or declared secret
RedactSchemas ==
    {SelectSeq(<<<<"API_KEY", a>>, <<"constructor", c>>>>,
               LAMBDA entry : entry[2] # <<>>) :
        a \in {<<>>, <<FALSE>>, <<TRUE>>}, c \in {<<>>, <<FALSE>>, <<TRUE>>}}

InitRedact ==
    /\ pc = "redact"
    /\ data \in JsonPool
    /\ schema \in {[i \in 1..Len(ks) |->
                       <<ks[i][1], [SchemaKey(ks[i][1], "string", TRUE)
                                        EXCEPT !.secret = ks[i][2][1]]>>] :
                   ks \in RedactSchemas}
    /\ redacted = Null /\ written = None
    /\ value = "" /\ keyDef = Null /\ valueResult = Null /\ patternResult = Null
    /\ env = <<>> /\ options = Null /\ result = Null
    /\ disk = Null /\ envPaths = <<>> /\ parsed = Null
    /\ schemaFile = Null /\ loaded = Null
    /\ cli = Null /\ gitignore = "ignored" /\ printed = <<>> /\ exitCode = None

RedactSecrets ==
    /\ pc = "redact"
    /\ redacted' = redactSecrets(data, schema)
    /\ pc' = "redacted"
    /\ UNCHANGED <<value, keyDef, valueResult, patternResult, env, schema,
                   options, result, disk, envPaths, parsed, schemaFile, loaded,
                   cli, gitignore, printed, exitCode, data, written>>

NextRedact == RedactSecrets

SpecRedact == InitRedact /\ [][NextRedact]_vars

-----------------------------------------------------------------------------
(* generateExampleFile *)

KeyChars ==
    "API_KEY" :> <<"A", "P", "I", "_", "K", "E", "Y">> @@
    "NODE_ENV" :> <<"N", "O", "D", "E", "_", "E", "N", "V">> @@
    "PORT" :> <<"P", "O", "R", "T">>

\* collation order of the characters of key names: the underscore before the
\* letters, the letters alphabetically
CollationRank ==
    "_" :> 0 @@
    "A" :> 1 @@ "B" :> 2 @@ "C" :> 3 @@ "D" :> 4 @@ "E" :> 5 @@ "F" :> 6 @@
    "G" :> 7 @@ "H" :> 8 @@ "I" :> 9 @@ "J" :> 10 @@ "K" :> 11 @@ "L" :> 12 @@
    "M" :> 13 @@ "N" :> 14 @@ "O" :> 15 @@ "P" :> 16 @@ "Q" :> 17 @@
    "R" :> 18 @@ "S" :> 19 @@ "T" :> 20 @@ "U" :> 21 @@ "V" :> 22 @@
    "W" :> 23 @@ "X" :> 24 @@ "Y" :> 25 @@ "Z" :> 26

RECURSIVE CompareChars(_, _)
CompareChars(as, bs) ==
    IF as = <<>> /\ bs = <<>> THEN 0
    ELSE IF as = <<>> THEN -1
    ELSE IF bs = <<>> THEN 1
    ELSE IF CollationRank[Head(as)] < CollationRank[Head(bs)] THEN -1
    ELSE IF CollationRank[Head(as)] > CollationRank[Head(bs)] THEN 1
    ELSE CompareChars(Tail(as), Tail(bs))

\* a.localeCompare(b), for upper-case key names
localeCompare(a, b) == CompareChars(KeyChars[a], KeyChars[b])

\* the comparator given to sort, on two key definitions
CompareKeys(a, b) ==
    IF a.required # b.required
    THEN IF a.required THEN -1 ELSE 1
    ELSE IF a.deprecated # b.deprecated
    THEN IF TruthyFlag(a.deprecated) THEN 1 ELSE -1
    ELSE localeCompare(a.name, b.name)

Sign(n) == IF n < 0 THEN -1 ELSE IF n > 0 THEN 1 ELSE 0

\* the comparator is a consistent comparison function for the elements
ConsistentOn(entries) ==
    LET defs == {entries[i][2] : i \in 1..Len(entries)}
    IN  /\ \A a \in defs : CompareKeys(a, a) = 0
        /\ \A a, b \in defs : Sign(CompareKeys(a, b)) = -Sign(CompareKeys(b, a))
        /\ \A a, b, c \in defs :
               (CompareKeys(a, b) <= 0 /\ CompareKeys(b, c) <= 0) =>
                   CompareKeys(a, c) <= 0

\* insertion after the last element that does not come after the new one
InsertSorted(sorted, entry) ==
    LET after == {i \in 1..Len(sorted) : CompareKeys(sorted[i][2], entry[2]) > 0}
        at    == IF after = {} THEN Len(sorted) + 1
                 ELSE CHOOSE i \in after : \A h \in after : i <= h
    IN  SubSeq(sorted, 1, at - 1) \o <<entry>> \o SubSeq(sorted, at, Len(sorted))

RECURSIVE StableSort(_)
StableSort(entries) ==
    IF entries = <<>> THEN <<>>
    ELSE InsertSorted(StableSort(SubSeq(entries, 1, Len(entries) - 1)),
                      entries[Len(entries)])

Reorderings(entries) ==
    {[i \in 1..Len(entries) |-> entries[f[i]]] :
        f \in {g \in [1..Len(entries) -> 1..Len(entries)] :
                  \A i, h \in 1..Len(entries) : g[i] = g[h] => i = h}}

\* Array.prototype.sort(comparefn): the stable sorted order when comparefn is
\* consistent for the elements, an implementation-defined order when it is not
SortOutcomes(entries) ==
    IF ConsistentOn(entries) THEN {StableSort(entries)}
    ELSE Reorderings(entries)

\* String(x) of a scalar default or example
StringOf(x) == IF x.kind = "number" THEN ToString(x.n) ELSE x.text

getTypeInfo(def) ==
    LET range == (IF def.min # <<>> THEN <<"min: " \o ToString(def.min[1])>>
                  ELSE <<>>)
                 \o (IF def.max # <<>> THEN <<"max: " \o ToString(def.max[1])>>
                     ELSE <<>>)
        parts ==
            (IF def.type # "string" THEN <<def.type>> ELSE <<>>)
            \o (IF def.enum # <<>>
                THEN <<"enum: [" \o Join(def.enum[1], ", ") \o "]">> ELSE <<>>)
            \o (IF TruthyString(def.pattern)
                THEN <<"pattern: " \o def.pattern[1]>> ELSE <<>>)
            \o (IF def.min # <<>> \/ def.max # <<>>
                THEN <<"range: " \o Join(range, ", ")>> ELSE <<>>)
            \o (IF def.required = FALSE THEN <<"optional">> ELSE <<>>)
            \o (IF TruthyFlag(def.deprecated) THEN <<"deprecated">> ELSE <<>>)
    IN  IF Len(parts) > 0 THEN Some(Join(parts, ", ")) ELSE None

getExampleValue(def) ==
    IF def.example # <<>> THEN StringOf(def.example[1])
    ELSE IF def.default # <<>> THEN StringOf(def.default[1])
    ELSE CASE def.type = "string" ->
                  IF def.enum # <<>> THEN def.enum[1][1] ELSE "your-value-here"
           [] def.type \in {"number", "int"} ->
                  IF def.min # <<>> THEN ToString(def.min[1]) ELSE "123"
           [] def.type = "boolean" -> "true"
           [] def.type = "url" -> "https://api.example.com"
           [] def.type = "email" -> "user@example.com"
           [] def.type = "enum" ->
                  IF def.enum # <<>> /\ def.enum[1] # <<>> /\ def.enum[1][1] # ""
                  THEN def.enum[1][1] ELSE "option1"
           [] def.type = "port" -> "3000"
           [] OTHER -> ""

\* the lines pushed for the keys, each key followed by an empty line
RECURSIVE ExampleLines(_)
ExampleLines(sortedKeys) ==
    IF sortedKeys = <<>> THEN <<>>
    ELSE LET keyName == Head(sortedKeys)[1]
             def     == Head(sortedKeys)[2]
         IN  (IF TruthyString(def.description)
              THEN <<"# " \o def.description[1]>> ELSE <<>>)
             \o (IF getTypeInfo(def) # <<>>
                 THEN <<"# Type: " \o getTypeInfo(def)[1]>> ELSE <<>>)
             \o <<keyName \o "=" \o getExampleValue(def), "">>
             \o ExampleLines(Tail(sortedKeys))

\* the file written for the keys in the order sort returned; keys lists the
\* names of its KEY=value lines from top to bottom
ExampleFile(outputPath, sortedKeys) ==
    LET pushed == ExampleLines(sortedKeys)
        lines  == IF pushed # <<>> /\ pushed[Len(pushed)] = ""
                  THEN SubSeq(pushed, 1, Len(pushed) - 1) ELSE pushed
    IN  [path    |-> outputPath,
         content |-> Join(lines, "\n"),
         keys    |-> ObjectKeys(sortedKeys)]

\* the entries that .filter keeps
KeptKeys(keys, opts) ==
    SelectSeq(keys, LAMBDA entry :
                  ~opts.pruneDeprecated \/ ~TruthyFlag(entry[2].deprecated))

ExampleShapes ==
    {[SchemaKey("", t, r) EXCEPT !.deprecated = d] :
        t \in {"string", "port"}, r \in BOOLEAN,
        d \in {<<>>, <<FALSE>>, <<TRUE>>}}
    \cup {[SchemaKey("", "int", TRUE) EXCEPT
               !.description = <<"Listening port">>, !.min = <<1>>,
               !.example = <<JNumber(80)>>],
          [SchemaKey("", "enum", FALSE) EXCEPT
               !.enum = <<OnOff>>, !.default = <<JString("on")>>,
               !.deprecated = <<TRUE>>]}

ExampleSchemas ==
    {[i \in 1..Len(o) |-> <<o[i][1], [o[i][2] EXCEPT !.name = o[i][1]]>>] :
        o \in ObjectsOver(DOMAIN KeyChars, ExampleShapes, MaxSchemaKeys)}

InitExample ==
    /\ pc = "generate"
    /\ schema \in ExampleSchemas
    /\ options \in [pruneDeprecated : BOOLEAN]
    /\ disk \in [writable : BOOLEAN]
    /\ written = None
    /\ data = Null /\ redacted = Null
    /\ value = "" /\ keyDef = Null /\ valueResult = Null /\ patternResult = Null
    /\ env = <<>> /\ result = Null /\ envPaths = <<>> /\ parsed = Null
    /\ schemaFile = Null /\ loaded = Null
    /\ cli = Null /\ gitignore = "ignored" /\ printed = <<>> /\ exitCode = None

\* generateExampleFile(schema, '.env.example', options); writeFileSync throws
\* when the file cannot be written
GenerateExampleFile ==
    /\ pc = "generate"
    /\ \E sortedKeys \in SortOutcomes(KeptKeys(schema, options)) :
           IF disk.writable
           THEN /\ written' = Some(ExampleFile(".env.example", sortedKeys))
                /\ pc' = "generated"
           ELSE /\ written' = written
                /\ pc' = "threw"
    /\ UNCHANGED <<value, keyDef, valueResult, patternResult, env, schema,
                   options, result, disk, envPaths, parsed, schemaFile, loaded,
                   cli, gitignore, printed, exitCode, data, redacted>>

NextExample == GenerateExampleFile

SpecExample == InitExample /\ [][NextExample]_vars

-----------------------------------------------------------------------------
(* The check command on a few schema files, with every .gitignore state *)

CheckSchemaFiles ==
    {MissingSchemaFile, SchemaFile("yaml"), JsonFile(None),
     ZodFile(<<<<"NODE_ENV", [ZodNode("ZodEnum") EXCEPT !.values = Some(OnOff)]>>,
               <<"PORT", ZodNode("ZodNumber")>>>>),
     JsonFile(Some(<<<<"NODE_ENV",
                       [JsonEntry EXCEPT !.type = Some("enum"),
                                         !.enum = Some(OnOff)]>>,
                     <<"PORT",
                       [JsonEntry EXCEPT !.type = Some("port"),
                                         !.optional = Some(TRUE),
                                         !.deprecated = Some(TRUE)]>>>>))}

Init ==
    InitCheckOver("load", CheckSchemaFiles, LoadDisks,
                  {<<".env">>, <<".env", ".env.local">>}, GitignoreStates)

Next == NextCheck

Spec == Init /\ [][Next]_vars

-----------------------------------------------------------------------------
(* Properties of validateEnv *)

Validated == pc = "validated"

\* the number of issues of one kind that name one key
IssuesOf(issues, key, type) ==
    Cardinality({i \in 1..Len(issues) :
                     issues[i].key = key /\ issues[i].type = type})

RequiredAndAbsent(key) ==
    /\ HasOwn(schema, key)
    /\ OwnValue(schema, key).required
    /\ ~HasOwn(env, key)

\* C1: validateEnv reports exactly one 'missing' error for each key that is
\* required in the schema and absent from the mapping, and no 'missing' error
\* for any other key, whatever the other keys and the options.
C1_MissingExactlyForRequiredAbsent ==
    Validated =>
        \A key \in KeyNames :
            IssuesOf(result.errors, key, "missing") =
                IF RequiredAndAbsent(key) THEN 1 ELSE 0

Undeclared(key) == HasOwn(env, key) /\ ~HasOwn(schema, key)

IssueCount == Len(result.errors) + Len(result.warnings)

\* C4: every key present in the mapping and not declared in the schema gets
\* exactly one 'unknown' issue, a warning without strict and an error with
\* strict; when it is the only issue and failOnWarn is not set, ok is true
\* without strict and false with strict.
C4_UnknownOncePerUndeclaredKey ==
    Validated =>
        \A key \in KeyNames :
            Undeclared(key) =>
                /\ IssuesOf(result.errors, key, "unknown") =
                       IF options.strict THEN 1 ELSE 0
                /\ IssuesOf(result.warnings, key, "unknown") =
                       IF options.strict THEN 0 ELSE 1
                /\ (IssueCount = 1 /\ ~options.failOnWarn) =>
                       result.ok = ~options.strict

\* C5: ok is true exactly when errors is empty and (warnings is empty or
\* failOnWarn is not set).
C5_OkIffNoErrorsAndWarningsAllowed ==
    Validated =>
        result.ok = (/\ Len(result.errors) = 0
                     /\ (Len(result.warnings) = 0 \/ ~options.failOnWarn))

\* C5 witness: zero errors and one deprecation warning under failOnWarn
C5_Witness ==
    /\ Validated
    /\ result.errors = <<>>
    /\ Len(result.warnings) = 1
    /\ result.warnings[1].type = "deprecated"
    /\ options.failOnWarn
    /\ ~result.ok

\* C6: stats.checked is the number of keys of the mapping, and stats.missing,
\* stats.deprecated and stats.unknown each count the issues of that kind
\* emitted in the run, errors and warnings together.
C6_StatsCountEveryIssueOfTheKind ==
    Validated =>
        /\ result.stats.checked = Len(env)
        /\ result.stats.missing =
               CountType(result.errors, "missing")
               + CountType(result.warnings, "missing")
        /\ result.stats.deprecated =
               CountType(result.errors, "deprecated")
               + CountType(result.warnings, "deprecated")
        /\ result.stats.unknown =
               CountType(result.errors, "unknown")
               + CountType(result.warnings, "unknown")

\* the place of a key among the own properties of an object, in order
IndexOf(obj, key) == CHOOSE i \in 1..Len(obj) : obj[i][1] = key

\* issues of present keys come grouped by key, in the mapping's order
InMappingOrder(issues) ==
    \A i, j \in 1..Len(issues) :
        (i < j /\ issues[i].type # "missing" /\ issues[j].type # "missing") =>
            IndexOf(env, issues[i].key) <= IndexOf(env, issues[j].key)

\* C7: in errors every 'missing' error precedes every other error; the
\* 'missing' errors are in schema declaration order; the other errors and the
\* warnings are grouped by key in the mapping's iteration order; for one key
\* a 'type' error precedes its 'pattern' error.
C7_IssueOrder ==
    Validated =>
        LET E == result.errors
        IN  /\ \A i, j \in 1..Len(E) :
                   (i < j /\ E[j].type = "missing") => E[i].type = "missing"
            /\ \A i, j \in 1..Len(E) :
                   (i < j /\ E[i].type = "missing" /\ E[j].type = "missing") =>
                       IndexOf(schema, E[i].key) < IndexOf(schema, E[j].key)
            /\ InMappingOrder(E)
            /\ InMappingOrder(result.warnings)
            /\ \A i, j \in 1..Len(E) :
                   (i < j /\ E[i].key = E[j].key /\ E[j].type = "type") =>
                       E[i].type # "pattern"

\* C7 witness: a 'missing' error, then a key's 'type' and 'pattern' errors,
\* then another key's 'unknown' error
C7_Witness ==
    /\ Validated
    /\ Len(result.errors) = 4
    /\ [i \in 1..4 |-> result.errors[i].type]
           = <<"missing", "type", "pattern", "unknown">>
    /\ result.errors[2].key = result.errors[3].key

-----------------------------------------------------------------------------
(* Properties of parseEnvFiles *)

Parsed == pc = "validate"

FileAt(i) == disk[resolve(envPaths[i])]

\* the file assigns the key on some line
Assigns(file, key) ==
    file.state = "present" /\ \E j \in 1..Len(file.lines) : file.lines[j][1] = key

\* the value the file gives the key: that of its last line for the key
FileValue(file, key) ==
    LET at == {j \in 1..Len(file.lines) : file.lines[j][1] = key}
    IN  file.lines[CHOOSE j \in at : \A h \in at : h <= j][2]

LineKeys == {l[1] : l \in LinePool}

Reverse(seq) == [i \in 1..Len(seq) |-> seq[Len(seq) + 1 - i]]

\* C8: parseEnvFiles returns one record per path in input order; merged[k] is
\* the value of k in the last file of the sequence that exists and contains
\* k; merging the files in the opposite order gives another value to a key
\* they disagree on; an absent file is recorded with exists = false and empty
\* content.
C8_OverlayLastFileWins ==
    Parsed =>
        /\ Len(parsed.files) = Len(envPaths)
        /\ \A i \in 1..Len(envPaths) :
               /\ parsed.files[i].path = resolve(envPaths[i])
               /\ parsed.files[i].exists = (FileAt(i).state = "present")
               /\ FileAt(i).state = "absent" => parsed.files[i].content = <<>>
        /\ \A key \in LineKeys :
               LET holders == {i \in 1..Len(envPaths) : Assigns(FileAt(i), key)}
                   last    == CHOOSE i \in holders : \A h \in holders : h <= i
               IN  /\ HasOwn(parsed.merged, key) = (holders # {})
                   /\ holders # {} =>
                          OwnValue(parsed.merged, key) = FileValue(FileAt(last), key)
        /\ Len(envPaths) = 2 =>
               \A key \in LineKeys :
                   (/\ Assigns(FileAt(1), key) /\ Assigns(FileAt(2), key)
                    /\ FileValue(FileAt(1), key) # FileValue(FileAt(2), key)) =>
                       OwnValue(parseEnvFiles(Reverse(envPaths), disk).merged, key)
                           # OwnValue(parsed.merged, key)

\* C8 witness: two files that disagree on PORT, the first alone has NODE_ENV
C8_Witness ==
    /\ Parsed
    /\ Len(envPaths) = 2
    /\ Assigns(FileAt(1), "PORT") /\ Assigns(FileAt(2), "PORT")
    /\ FileValue(FileAt(1), "PORT") # FileValue(FileAt(2), "PORT")
    /\ Assigns(FileAt(1), "NODE_ENV") /\ ~Assigns(FileAt(2), "NODE_ENV")
    /\ OwnValue(parsed.merged, "PORT") = FileValue(FileAt(2), "PORT")
    /\ OwnValue(parsed.merged, "NODE_ENV") = FileValue(FileAt(1), "NODE_ENV")

-----------------------------------------------------------------------------
(* Properties of validateEnvValue *)

ValueValidated == pc \in {"pattern", "done"}

\* C9: validateEnvValue of an empty value is invalid with reason 'Required key
\* missing' when the key is required and valid when it is not, for every
\* declared type.
C9_EmptyValueDecidedByRequired ==
    (ValueValidated /\ value = "") =>
        valueResult = IF keyDef.required
                      THEN [valid |-> FALSE, error |-> <<"Required key missing">>]
                      ELSE [valid |-> TRUE, error |-> <<>>]

\* C9 witness: an empty value for a required key of type string
C9_Witness ==
    /\ ValueValidated
    /\ value = ""
    /\ keyDef.required
    /\ keyDef.type = "string"
    /\ ~valueResult.valid

\* the one declared key and the one assigned value of SpecKey
TheDef == schema[1][2]

TheValue == env[1][2]

TypeErrorMessages ==
    {result.errors[i].message :
        i \in {j \in 1..Len(result.errors) : result.errors[j].type = "type"}}

\* C10: for a key of type enum a non-empty value is valid exactly when it
\* equals, case-sensitively, one of the declared literals; any other non-empty
\* value is invalid with a reason that lists the allowed literals, and
\* validateEnv reports it as exactly one 'type' error with ok = false.
C10_EnumExactMembership ==
    (Validated /\ TheDef.type = "enum" /\ TheValue # "") =>
        LET member == IsSet(TheDef.enum) /\ TheValue \in Range(TheDef.enum[1])
        IN  /\ validateEnvValue(TheValue, TheDef).valid = member
            /\ IssuesOf(result.errors, TheDef.name, "type") =
                   IF member THEN 0 ELSE 1
            /\ ~member => ~result.ok
            /\ (~member /\ TheDef.enum = <<OnOff>>) =>
                   TypeErrorMessages =
                       {"Expected one of [on, off], got \"" \o TheValue \o "\""}

\* C10 witness: ON for a key whose literals are on and off
C10_Witness ==
    /\ Validated
    /\ TheDef.type = "enum"
    /\ TheDef.enum = <<OnOff>>
    /\ TheValue = "ON"
    /\ IssuesOf(result.errors, TheDef.name, "type") = 1
    /\ ~result.ok

-----------------------------------------------------------------------------
(* Properties of the schema adapters *)

SchemaLoaded == pc # "load" /\ ~loaded.threw

OneZodField ==
    /\ IsSet(schemaFile.export)
    /\ Len(schemaFile.export[1].shape) = 1

TheNode == schemaFile.export[1].shape[1][2]

TheKey == OwnValue(schema, FieldName)

\* C2: a fluent schema field wrapped in an optional or default-providing
\* wrapper, at any depth, normalizes to required = false, so that a mapping
\* which omits the key validates with no 'missing' error for it.
C2_WrappedFieldIsOptional ==
    (SchemaLoaded /\ OneZodField /\ TheNode.typeName \in ZodWrappers) =>
        /\ TheKey.required = FALSE
        /\ (Validated /\ ~HasOwn(env, FieldName)) =>
               /\ IssuesOf(result.errors, FieldName, "missing") = 0
               /\ result.ok

OneJsonEntry ==
    /\ IsSet(schemaFile.properties)
    /\ Len(schemaFile.properties[1]) = 1

TheEntry == schemaFile.properties[1][1][2]

\* C3: in the JSON adapter an entry carrying required: false normalizes to
\* required = false, an entry carrying required: true (or neither flag) to
\* required = true, and an entry carrying optional: true to required = false.
C3_JsonRequiredFlag ==
    (SchemaLoaded /\ OneJsonEntry) =>
        /\ TheEntry.required = <<FALSE>> => TheKey.required = FALSE
        /\ (/\ TheEntry.required = <<TRUE>> \/ TheEntry.required = <<>>
            /\ TheEntry.optional = <<>>) => TheKey.required = TRUE
        /\ TheEntry.optional = <<TRUE>> => TheKey.required = FALSE

-----------------------------------------------------------------------------
(* Properties of the type checks *)

\* the values of ValuePool that denote an integer from 1 to 65535
PortNumerals == {"1", "80", " 80", "80.0", "1e3", "0x50", "65535"}

\* C11: for a key of type port a non-empty value is valid exactly when it
\* denotes an integer from 1 to 65535, whatever min and max the key declares;
\* an out-of-range value such as 99999 yields one 'type' error whose message
\* names the port number range and leaves stats.missing = 0.
C11_PortRangeIgnoresBounds ==
    (Validated /\ TheDef.type = "port" /\ TheValue # "") =>
        /\ validateEnvValue(TheValue, TheDef).valid = (TheValue \in PortNumerals)
        /\ IssuesOf(result.errors, TheDef.name, "type") =
               IF TheValue \in PortNumerals THEN 0 ELSE 1
        /\ TheValue \notin PortNumerals =>
               /\ TypeErrorMessages =
                      {"Expected port number (1-65535), got \"" \o TheValue \o "\""}
               /\ result.stats.missing = 0
               /\ ~result.ok

\* C11 witness: 99999 for a required port key that declares max = 80
C11_Witness ==
    /\ Validated
    /\ TheDef.type = "port"
    /\ TheDef.required
    /\ TheDef.max = <<80>>
    /\ TheValue = "99999"
    /\ IssuesOf(result.errors, TheDef.name, "type") = 1
    /\ result.stats.missing = 0

NotANumber(v) == "Expected number, got \"" \o v \o "\""

NotAnInteger(v) == "Expected integer, got \"" \o v \o "\""

BelowMinimum(n, min) ==
    "Value " \o NumberToString(n) \o " is below minimum " \o ToString(min)

AboveMaximum(n, max) ==
    "Value " \o NumberToString(n) \o " is above maximum " \o ToString(max)

\* C12: for a key of type number or int validateEnvValue gives a non-empty
\* value one of four distinct failure reasons, in this order: not a number,
\* not an integer (int only), below minimum, above maximum; the bounds are
\* inclusive, and a value that parses (and is whole for int) within the
\* declared bounds is valid.
C12_NumberReasonsInOrder ==
    (ValueValidated /\ keyDef.type \in {"number", "int"} /\ value # "") =>
        LET n       == ToNumber(value)
            parses  == ~isNaN(n)
            whole   == keyDef.type = "int" => IsInteger(n)
            atLeast == keyDef.min = <<>> \/ ~NumberLess(n, keyDef.min[1])
            atMost  == keyDef.max = <<>> \/ ~NumberGreater(n, keyDef.max[1])
        IN  /\ valueResult.valid = (parses /\ whole /\ atLeast /\ atMost)
            /\ valueResult.error =
                   IF ~parses THEN <<NotANumber(value)>>
                   ELSE IF ~whole THEN <<NotAnInteger(value)>>
                   ELSE IF ~atLeast THEN <<BelowMinimum(n, keyDef.min[1])>>
                   ELSE IF ~atMost THEN <<AboveMaximum(n, keyDef.max[1])>>
                   ELSE <<>>
            /\ Cardinality({NotANumber(value), NotAnInteger(value),
                            BelowMinimum(n, 1), AboveMaximum(n, 80)}) = 4
            /\ (value = "1" /\ keyDef.min = <<1>>) => valueResult.valid
            /\ (value = "80" /\ keyDef.max = <<80>>) => valueResult.valid
            /\ (value = "0" /\ keyDef.min = <<1>>) =>
                   valueResult.error = <<"Value 0 is below minimum 1">>
            /\ (value = "3.5" /\ keyDef.type = "int") =>
                   valueResult.error = <<"Expected integer, got \"3.5\"">>
            /\ (value = "3.5" /\ keyDef.type = "number") => valueResult.valid

\* C12 witness: an int key with min = 1 and max = 80 given the value 1
C12_Witness ==
    /\ ValueValidated
    /\ keyDef.type = "int"
    /\ keyDef.min = <<1>> /\ keyDef.max = <<80>>
    /\ value = "1"
    /\ valueResult.valid

\* the eight boolean words, by their characters
BooleanWords ==
    {Chars(w) : w \in {"true", "false", "1", "0", "yes", "no", "on", "off"}}

\* C13: for a key of type boolean a non-empty value is valid exactly when its
\* lower-cased form is one of true, false, 1, 0, yes, no, on, off; every other
\* non-empty value is invalid with a reason that says 'Expected boolean'.
C13_BooleanWordsAnyCase ==
    (ValueValidated /\ keyDef.type = "boolean" /\ value # "") =>
        /\ valueResult.valid = (toLowerCase(Chars(value)) \in BooleanWords)
        /\ ~valueResult.valid =>
               valueResult.error = <<"Expected boolean, got \"" \o value \o "\"">>
        /\ value \in {"TRUE", "Yes", "ON", "0", "off"} => valueResult.valid
        /\ value \in {"maybe", "80", " "} => ~valueResult.valid

\* C13 witness: the upper-case word TRUE is accepted
C13_Witness ==
    /\ ValueValidated
    /\ keyDef.type = "boolean"
    /\ value = "TRUE"
    /\ valueResult.valid

-----------------------------------------------------------------------------
(* Properties of validateEnv: pattern, completeness, deprecation *)

\* the entries of the mapping whose key the schema declares
DeclaredEntries == {i \in 1..Len(env) : HasOwn(schema, env[i][1])}

\* C14: for every declared key present in the mapping validateEnv checks the
\* pattern on the raw value whatever the type check found: a value failing
\* both yields a 'type' and a 'pattern' error for the key, a value failing
\* only the pattern yields exactly one 'pattern' error and no 'type' error,
\* and a key without pattern never yields a 'pattern' error.
C14_PatternIndependentOfType ==
    Validated =>
        \A i \in DeclaredEntries :
            LET key       == env[i][1]
                def       == OwnValue(schema, key)
                typeFails == ~validateEnvValue(env[i][2], def).valid
                patFails  == /\ def.pattern # <<>>
                             /\ ~validatePattern(env[i][2], def.pattern[1]).valid
            IN  /\ IssuesOf(result.errors, key, "pattern") =
                       IF patFails THEN 1 ELSE 0
                /\ IssuesOf(result.errors, key, "type") =
                       IF typeFails THEN 1 ELSE 0
                /\ def.pattern = <<>> =>
                       IssuesOf(result.errors, key, "pattern") = 0

\* C14 witness: 3.5 for an int key with pattern ^[a-z]+$ fails both checks
C14_Witness ==
    /\ Validated
    /\ TheDef.type = "int"
    /\ TheDef.pattern = <<PatternLower>>
    /\ TheValue = "3.5"
    /\ IssuesOf(result.errors, TheDef.name, "type") = 1
    /\ IssuesOf(result.errors, TheDef.name, "pattern") = 1

\* the issues of a list that are about the key
KeyIssues(issues, key) == SelectSeq(issues, LAMBDA issue : issue.key = key)

\* the object cut down to the key
Only(obj, key) == SelectSeq(obj, LAMBDA entry : entry[1] = key)

InvalidPatternMessage == "Invalid regex pattern: " \o PatternInvalid

MismatchMessage == "Value does not match pattern: " \o PatternInvalid

\* C15: validateEnv returns a complete result for every mapping and schema
\* and does not stop at the first failure: the issues it reports for a key are
\* those the key has when validated on its own, whatever the other keys did;
\* a pattern that is not a valid regular expression is reported as one
\* 'pattern' error of that key, with a message other than the mismatch one.
C15_EveryKeyFullyReported ==
    Validated =>
        /\ DOMAIN result = {"ok", "errors", "warnings", "files", "stats"}
        /\ \A key \in KeyNames :
               LET alone == validateEnv(Only(env, key), Only(schema, key), options)
               IN  /\ KeyIssues(result.errors, key) = alone.errors
                   /\ KeyIssues(result.warnings, key) = alone.warnings
        /\ \A i \in 1..Len(result.errors) : result.errors[i].key \in KeyNames
        /\ \A i \in 1..Len(result.warnings) : result.warnings[i].key \in KeyNames
        /\ \A i \in DeclaredEntries :
               OwnValue(schema, env[i][1]).pattern = <<PatternInvalid>> =>
                   /\ SelectSeq(KeyIssues(result.errors, env[i][1]),
                                LAMBDA issue : issue.type = "pattern")
                          = <<Issue(env[i][1], "pattern", InvalidPatternMessage)>>
                   /\ InvalidPatternMessage # MismatchMessage

\* C15 witness: the error of an invalid pattern is followed by an error of
\* another key
C15_Witness ==
    /\ Validated
    /\ \E i, j \in 1..Len(result.errors) :
           /\ i < j
           /\ result.errors[i].type = "pattern"
           /\ result.errors[i].message = InvalidPatternMessage
           /\ result.errors[j].key # result.errors[i].key

OfType(issues, type) == SelectSeq(issues, LAMBDA issue : issue.type = type)

\* the schema with every deprecation flag removed
Undeprecated(keys) ==
    [i \in 1..Len(keys) |->
        <<keys[i][1], [keys[i][2] EXCEPT !.deprecated = <<>>]>>]

DeclaredDeprecated(key) ==
    HasOwn(schema, key) /\ OwnValue(schema, key).deprecated = <<TRUE>>

\* C16: a key present in the mapping and declared deprecated gets exactly one
\* 'deprecated' warning, which carries the key's replacedBy, and no error on
\* account of deprecation; a deprecated key absent from the mapping gets no
\* such warning; a run whose only issues are deprecation warnings has
\* ok = true unless failOnWarn is set.
C16_DeprecatedWarnsOnce ==
    Validated =>
        /\ \A key \in KeyNames :
               LET found == OfType(KeyIssues(result.warnings, key), "deprecated")
               IN  IF DeclaredDeprecated(key) /\ HasOwn(env, key)
                   THEN /\ Len(found) = 1
                        /\ found[1].replacedBy = OwnValue(schema, key).replacedBy
                   ELSE found = <<>>
        /\ OfType(result.errors, "deprecated") = <<>>
        /\ result.errors = validateEnv(env, Undeprecated(schema), options).errors
        /\ (/\ result.errors = <<>>
            /\ result.warnings # <<>>
            /\ OfType(result.warnings, "deprecated") = result.warnings) =>
               result.ok = ~options.failOnWarn

\* C16 witness: the one issue is the warning of a deprecated key replaced by
\* PORT, failOnWarn is not set, and a second deprecated key is absent
C16_Witness ==
    /\ Validated
    /\ result.errors = <<>>
    /\ Len(result.warnings) = 1
    /\ result.warnings[1].type = "deprecated"
    /\ result.warnings[1].replacedBy = <<"PORT">>
    /\ ~options.failOnWarn
    /\ result.ok
    /\ \E key \in KeyNames : DeclaredDeprecated(key) /\ ~HasOwn(env, key)

-----------------------------------------------------------------------------
(* Properties of secrets *)

\* the two values are classified alike by the type check and the pattern check
SameClassification(v, w, def) ==
    /\ validateEnvValue(v, def).valid = validateEnvValue(w, def).valid
    /\ def.pattern # <<>> =>
           validatePattern(v, def.pattern[1]).valid
               = validatePattern(w, def.pattern[1]).valid

\* C17: the result carries no raw value: two mappings that differ only in the
\* non-empty value of a key declared secret, the two values being classified
\* alike, get identical results from validateEnv.
C17_ResultIndependentOfSecretValue ==
    (Validated /\ TheDef.secret /\ TheValue # "") =>
        \A w \in ValuePool \ {""} :
            SameClassification(TheValue, w, TheDef) =>
                validateEnv(<<<<env[1][1], w>>>>, schema, options) = result

\* a step into a JSON value: a property of an object or an index of an array
AtKey(key) == [key |-> key]

AtIndex(i) == [index |-> i]

\* the paths from the value to the values inside it, itself included
RECURSIVE Paths(_)
Paths(v) ==
    {<<>>} \cup
    (CASE v.kind = "array" ->
              UNION {{<<AtIndex(i)>> \o path : path \in Paths(v.items[i])} :
                     i \in 1..Len(v.items)}
       [] v.kind = "object" ->
              UNION {{<<AtKey(v.entries[i][1])>> \o path :
                         path \in Paths(v.entries[i][2])} :
                     i \in 1..Len(v.entries)}
       [] OTHER -> {})

\* the value at the end of the path
RECURSIVE At(_, _)
At(v, path) ==
    IF path = <<>> THEN v
    ELSE IF v.kind = "array" THEN At(v.items[Head(path).index], Tail(path))
    ELSE At(OwnValue(v.entries, Head(path).key), Tail(path))

\* the path ends at a property whose key the schema declares secret
UnderSecretKey(path) ==
    /\ path # <<>>
    /\ DOMAIN path[Len(path)] = {"key"}
    /\ HasOwn(schema, path[Len(path)].key)
    /\ OwnValue(schema, path[Len(path)].key).secret

\* the copy has the shape of the original, '<redacted>' for every string
\* under a secret key, and the original's value everywhere else
RedactedCopy(original, copy) ==
    /\ Paths(copy) = Paths(original)
    /\ \A path \in Paths(original) :
           LET a == At(original, path)
               b == At(copy, path)
           IN  /\ b.kind = a.kind
               /\ a.kind = "array" => Len(b.items) = Len(a.items)
               /\ a.kind = "object" => ObjectKeys(b.entries) = ObjectKeys(a.entries)
               /\ a.kind \in {"number", "null"} => b = a
               /\ a.kind = "string" =>
                      b = IF UnderSecretKey(path) THEN JString("<redacted>") ELSE a

\* C18: redactSecrets(obj, schema) returns a copy of obj in which every string
\* stored under a key the schema declares secret, at every depth and inside
\* arrays, is '<redacted>' and every other value is as in obj; obj itself is
\* left as it was.
C18_RedactSecretsCopy ==
    [][pc = "redact" => (data' = data /\ RedactedCopy(data, redacted'))]_vars

\* C18 witness: a secret string inside an object inside an array is redacted,
\* and a string under a key that is not secret is kept
C18_Witness ==
    /\ pc = "redacted"
    /\ \E path \in Paths(data) :
           /\ Len(path) = 3
           /\ DOMAIN path[2] = {"index"}
           /\ UnderSecretKey(path)
           /\ At(data, path) = JString("hunter2")
           /\ At(redacted, path) = JString("<redacted>")
    /\ \E path \in Paths(data) :
           /\ ~UnderSecretKey(path)
           /\ At(redacted, path) = JString("hunter2")

-----------------------------------------------------------------------------
(* Properties of generateExampleFile *)

Generated == pc = "generated"

IsDeprecated(def) == def.deprecated = <<TRUE>>

\* the one order of the claim: required before optional, then not deprecated
\* before deprecated, then by name
ComesBefore(a, b) ==
    LET ra == IF a.required THEN 0 ELSE 1
        rb == IF b.required THEN 0 ELSE 1
        da == IF IsDeprecated(a) THEN 1 ELSE 0
        db == IF IsDeprecated(b) THEN 1 ELSE 0
    IN  \/ ra < rb
        \/ ra = rb /\ da < db
        \/ ra = rb /\ da = db /\ CompareChars(KeyChars[a.name], KeyChars[b.name]) < 0

\* C19: generateExampleFile emits the keys in one order that depends on the
\* key definitions alone: required before optional, within each group not
\* deprecated (deprecated = false or unset alike) before deprecated, and by
\* name within that; with pruneDeprecated exactly the deprecated keys are
\* left out.
C19_ExampleKeyOrder ==
    Generated =>
        LET keys    == written[1].keys
            emitted == {keys[i] : i \in 1..Len(keys)}
        IN  /\ Len(keys) = Cardinality(emitted)
            /\ emitted =
                   {schema[i][1] :
                       i \in {h \in 1..Len(schema) :
                                 ~(options.pruneDeprecated
                                   /\ IsDeprecated(schema[h][2]))}}
            /\ \A i, j \in 1..Len(keys) :
                   i < j => ComesBefore(OwnValue(schema, keys[i]),
                                        OwnValue(schema, keys[j]))

-----------------------------------------------------------------------------
(* Properties of the check command *)

ResultPrinted ==
    \E i \in 1..Len(printed) : printed[i].format \in {"json", "human"}

SchemaLoadFailed == loaded # Null /\ loaded.threw

EnvReadFailed == parsed # Null /\ parsed.threw

\* load schema, parse env files, validate, print: each step has the one
\* before it behind it, and validation gets --strict and --ci
StepsInOrder ==
    /\ (loaded = Null) = (pc = "load")
    /\ parsed # Null => (loaded # Null /\ ~loaded.threw)
    /\ result # Null =>
           /\ parsed # Null /\ ~parsed.threw
           /\ options = [strict |-> cli.strict, failOnWarn |-> cli.ci]
           /\ result = validateEnv(parsed.merged, loaded.keys,
                                   [strict |-> cli.strict, failOnWarn |-> cli.ci])
    /\ ResultPrinted =>
           /\ result # Null
           /\ \A i \in 1..Len(printed) :
                  printed[i].format \in {"json", "human"} =>
                      /\ printed[i].result = result
                      /\ printed[i].format = IF cli.json THEN "json" ELSE "human"
    /\ exitCode \in {<<0>>, <<1>>} => ResultPrinted
    /\ SchemaLoadFailed => (result = Null /\ ~ResultPrinted)

-----------------------------------------------------------------------------
(* Properties of schema loading *)

\* loadSchema threw and the command holds no schema
LoadFailed == pc = "catch" /\ loaded.threw /\ schema = <<>>

MissingPropertiesMessage ==
    "Failed to load JSON schema: JSON schema must have a \""
        \o "properties" \o "\" object"

\* the entry without the attribute the adapter does not know
WithoutFormat(entry) == [entry EXCEPT !.format = None]

\* C21: a JSON schema without a "properties" member fails to load with a
\* message naming "properties" and yields no schema; a fluent schema file whose
\* export is missing or is not an object of fields fails to load; a JSON schema
\* with empty "properties" loads as a schema with no keys; an attribute the
\* adapter does not know changes nothing in the key loaded from the entry.
C21_RootContainerRequired ==
    pc # "load" =>
        /\ schemaFile = JsonFile(None) =>
               LoadFailed /\ loaded.message = MissingPropertiesMessage
        /\ (schemaFile.exists /\ schemaFile.ext = "ts"
            /\ (~IsSet(schemaFile.export) \/ ~schemaFile.export[1].zodObject)) =>
               LoadFailed
        /\ schemaFile = JsonFile(Some(<<>>)) =>
               loaded = Loaded(<<>>, "json", resolve(schemaFile.name))
        /\ OneJsonEntry =>
               /\ SchemaLoaded
               /\ TheKey = parseJsonKey(FieldName, WithoutFormat(TheEntry))

\* C21 witness: the JSON document without "properties" was rejected
C21_Witness ==
    /\ schemaFile = JsonFile(None)
    /\ LoadFailed
    /\ loaded.message = MissingPropertiesMessage

-----------------------------------------------------------------------------
(* Properties of empty values *)

\* the one declared key of SpecKey is assigned the empty value
EmptyValueOf(required) ==
    /\ Validated
    /\ TheDef.required = required
    /\ TheValue = ""

\* the declared pattern, if any, rejects the value or does not compile
PatternRejects(def, v) ==
    IsSet(def.pattern) /\ ~validatePattern(v, def.pattern[1]).valid

\* C22: a declared optional key present with an empty value gets neither a
\* 'type' error nor a 'pattern' error, whatever its type and whether or not a
\* pattern is declared.
C22_EmptyOptionalValueUnchecked ==
    EmptyValueOf(FALSE) =>
        /\ IssuesOf(result.errors, TheDef.name, "type") = 0
        /\ IssuesOf(result.errors, TheDef.name, "pattern") = 0

\* C22 as it holds: the empty value of an optional key gets no 'type' error
\* whatever the type, and exactly one 'pattern' error when the key declares a
\* pattern that the empty value does not match or that does not compile.
C22_EmptyOptionalValueSkipsTypeCheck ==
    EmptyValueOf(FALSE) =>
        /\ IssuesOf(result.errors, TheDef.name, "type") = 0
        /\ IssuesOf(result.errors, TheDef.name, "pattern") =
               IF PatternRejects(TheDef, "") THEN 1 ELSE 0
        /\ ~IsSet(TheDef.pattern) => result.errors = <<>>

\* C22 witness: the empty value of an optional boolean key with pattern
\* ^[0-9]+$ has the pattern error as its only error
C22_Witness ==
    /\ EmptyValueOf(FALSE)
    /\ TheDef.type = "boolean"
    /\ TheDef.pattern = <<PatternDigits>>
    /\ Len(result.errors) = 1
    /\ result.errors[1].type = "pattern"

-----------------------------------------------------------------------------
(* Properties of the fluent adapter *)

\* the node inside every optional and default wrapper
RECURSIVE Innermost(_)
Innermost(node) ==
    IF node.typeName \in ZodWrappers THEN Innermost(node.innerType[1]) ELSE node

\* the value the node's checks declare for the kind, None when they declare none
Declared(node, kind) ==
    LET vals == {node.checks[i].value :
                    i \in {j \in 1..Len(node.checks) : node.checks[j].kind = kind}}
    IN  IF vals = {} THEN None ELSE Some(CHOOSE v \in vals : TRUE)

HasIntCheck(node) == \E i \in 1..Len(node.checks) : node.checks[i].kind = "int"

NumberFieldLoaded ==
    SchemaLoaded /\ OneZodField /\ Innermost(TheNode).typeName = "ZodNumber"

\* C23: a number field of a fluent schema, wrapped or not, loads as port
\* exactly when its minimum is 1 and its maximum 65535, otherwise as int when
\* it has an integer check and as number when it has none; min and max are the
\* declared minimum and maximum in every case.
C23_PortByExactBounds ==
    NumberFieldLoaded =>
        LET node == Innermost(TheNode)
            port == /\ Declared(node, "min") = <<1>>
                    /\ Declared(node, "max") = <<65535>>
        IN  /\ TheKey.type = IF port THEN "port"
                             ELSE IF HasIntCheck(node) THEN "int"
                             ELSE "number"
            /\ TheKey.min = Declared(node, "min")
            /\ TheKey.max = Declared(node, "max")

\* C23 witness: z.number().int().min(1).max(65535).default(..) loaded as port
C23_Witness ==
    /\ NumberFieldLoaded
    /\ TheNode.typeName = "ZodDefault"
    /\ HasIntCheck(Innermost(TheNode))
    /\ TheKey.type = "port"
    /\ TheKey.min = <<1>>
    /\ TheKey.max = <<65535>>

WrappedFieldLoaded ==
    SchemaLoaded /\ OneZodField /\ TheNode.typeName \in ZodWrappers

\* C24: the key loaded from a field wrapped in optional or default wrappers
\* keeps what the outer wrapper carries, the default of a default wrapper as
\* default and the wrapper's description as description, and takes its type
\* and constraints from the innermost node.
C24_WrapperAttributesKept ==
    WrappedFieldLoaded =>
        LET inner == parseZodType(FieldName, Innermost(TheNode))
        IN  /\ TheNode.typeName = "ZodDefault" =>
                   TheKey.default = TheNode.defaultValue
            /\ IsSet(TheNode.description) =>
                   TheKey.description = TheNode.description
            /\ TheKey.type = inner.type
            /\ TheKey.pattern = inner.pattern
            /\ TheKey.enum = inner.enum
            /\ TheKey.min = inner.min
            /\ TheKey.max = inner.max

-----------------------------------------------------------------------------
(* Properties of numeric values *)

Infinities == {"Infinity", "-Infinity"}

\* values of ValuePool that are no numeral
NotNumerals == {"abc", "maybe", "NaN", "on", "true", "https://a.io"}

\* C25: for a key of type number or int the values Infinity and -Infinity and
\* the values that are no numeral are rejected as not a number, whether or not
\* min and max are declared.
C25_OnlyFiniteNumerals ==
    (/\ ValueValidated
     /\ keyDef.type \in {"number", "int"}
     /\ value \in Infinities \cup NotNumerals) =>
        valueResult = Invalid(NotANumber(value))

-----------------------------------------------------------------------------
(* Properties of every loaded schema *)

\* the key definitions of the loaded schema
LoadedKeys == {schema[i][2] : i \in 1..Len(schema)}

\* C26: in every schema either adapter loads, a key of type enum has a
\* non-empty list of allowed literals, so that some non-empty value is valid
\* for it.
C26_EnumKeysListLiterals ==
    SchemaLoaded =>
        \A key \in LoadedKeys :
            key.type = "enum" =>
                /\ IsSet(key.enum)
                /\ key.enum[1] # <<>>
                /\ \E v \in ValuePool \ {""} : validateEnvValue(v, key).valid

\* C27: in every schema either adapter loads, the type of every key is one of
\* the eight types validateEnvValue has a check for.
C27_LoadedTypesAreDeclaredTypes ==
    SchemaLoaded => \A key \in LoadedKeys : key.type \in SchemaTypes

-----------------------------------------------------------------------------
(* Properties of key names that Object.prototype also defines *)

\* C28: a key named after a built-in object property is classified by the own
\* entries of the mapping and of the schema alone: required in the schema and
\* not assigned, it gets a 'missing' error; assigned and not declared in the
\* schema, it gets an 'unknown' issue.
C28_BuiltInNamesAreOrdinaryKeys ==
    Validated =>
        \A key \in KeyNames \cap ObjectPrototypeKeys :
            /\ RequiredAndAbsent(key) =>
                   IssuesOf(result.errors, key, "missing") = 1
            /\ (HasOwn(env, key) /\ ~HasOwn(schema, key)) =>
                   IssuesOf(result.errors, key, "unknown")
                       + IssuesOf(result.warnings, key, "unknown") = 1

-----------------------------------------------------------------------------
(* Properties of a required key assigned the empty value *)

\* the entries of the mapping that assign the empty value to a required key
RequiredEmptyEntries ==
    {i \in DeclaredEntries :
        OwnValue(schema, env[i][1]).required /\ env[i][2] = ""}

RequiredKeyMissingIssue(key) == Issue(key, "type", "Required key missing")

\* the key is not among the keys counted as missing
NotCountedMissing(key) ==
    /\ IssuesOf(result.errors, key, "missing") = 0
    /\ result.stats.missing = Len(OfType(result.errors, "missing"))

\* C29: a required key present with an empty value has exactly one error, the
\* 'type' error 'Required key missing', has no 'missing' error and is not
\* counted in stats.missing.
C29_RequiredEmptyIsOneTypeError ==
    Validated =>
        \A i \in RequiredEmptyEntries :
            /\ KeyIssues(result.errors, env[i][1])
                   = <<RequiredKeyMissingIssue(env[i][1])>>
            /\ NotCountedMissing(env[i][1])

\* C29 as it holds: such a key has exactly one 'type' error, 'Required key
\* missing', has no 'missing' error and is not counted in stats.missing; its
\* only other error is one 'pattern' error, when the key declares a pattern
\* that the empty value does not match or that does not compile.
C29_RequiredEmptyIsTypeError ==
    Validated =>
        \A i \in RequiredEmptyEntries :
            /\ KeyIssues(result.errors, env[i][1])
                   = <<RequiredKeyMissingIssue(env[i][1])>>
                     \o OfType(KeyIssues(result.errors, env[i][1]), "pattern")
            /\ IssuesOf(result.errors, env[i][1], "pattern") =
                   IF PatternRejects(OwnValue(schema, env[i][1]), "")
                   THEN 1 ELSE 0
            /\ NotCountedMissing(env[i][1])

\* C29 witness: a required key is assigned the empty value while another
\* required key is missing
C29_Witness ==
    /\ Validated
    /\ RequiredEmptyEntries # {}
    /\ result.stats.missing = 1
    /\ \E i \in RequiredEmptyEntries :
           KeyIssues(result.errors, env[i][1])
               = <<RequiredKeyMissingIssue(env[i][1])>>

-----------------------------------------------------------------------------
(* Properties of every result of validateEnv *)

IssueTypes(issues) == {issues[i].type : i \in 1..Len(issues)}

IssueKeys(issues) == {issues[i].key : i \in 1..Len(issues)}

\* C30: in every result the errors are of kind missing, type, pattern or
\* unknown and the warnings of kind deprecated or unknown; an 'unknown' issue
\* is an error under strict and a warning otherwise; the key of every issue is
\* a key of the mapping or a required key of the schema absent from the
\* mapping; a key with a 'missing' error has no other issue.
C30_IssueKindsAndKeys ==
    Validated =>
        /\ IssueTypes(result.errors) \subseteq
               {"missing", "type", "pattern", "unknown"}
        /\ IssueTypes(result.warnings) \subseteq {"deprecated", "unknown"}
        /\ options.strict => "unknown" \notin IssueTypes(result.warnings)
        /\ ~options.strict => "unknown" \notin IssueTypes(result.errors)
        /\ \A key \in IssueKeys(result.errors) \cup IssueKeys(result.warnings) :
               HasOwn(env, key) \/ RequiredAndAbsent(key)
        /\ \A key \in IssueKeys(OfType(result.errors, "missing")) :
               /\ Len(KeyIssues(result.errors, key)) = 1
               /\ KeyIssues(result.warnings, key) = <<>>

\* C30 witness: under strict, a result with a 'missing' error, an 'unknown'
\* error and a 'deprecated' warning
C30_Witness ==
    /\ Validated
    /\ options.strict
    /\ {"missing", "unknown"} \subseteq IssueTypes(result.errors)
    /\ "deprecated" \in IssueTypes(result.warnings)

=============================================================================
